---------------------------- MODULE Spec2Model ----------------------------
(***************************************************************************)
(* A model of the batch-lifecycle engine of hello-again: the request       *)
(* compiler (generateBatchJSONL), the strict-schema validator              *)
(* (validateStrictSchema), the result merge (batch-results.ts), the job    *)
(* ledger (batch-storage.ts), the lifecycle client (createBatch,           *)
(* checkBatchStatus), the poll scheduler of the process page and the       *)
(* caches of the service worker (public/sw.js).                            *)
(*                                                                         *)
(* The module holds these specifications over one set of variables:        *)
(*   SpecCompile  the two request compilers, applied to bounded row lists  *)
(*   SpecSchema   validateStrictSchema, applied to bounded schema trees    *)
(*   SpecMerge    processBatchResults, applied to bounded result documents *)
(*   SpecCsv      parseConnectionsCSV and exportToCSV, applied to bounded  *)
(*                contact tables                                           *)
(*   Spec         the ledger, the lifecycle client and the scheduler as    *)
(*                interleaved asynchronous call chains                     *)
(*   SpecLive     Spec with the fairness of the executions in flight       *)
(*   SpecImport   Spec with the reattach path and a job of another session *)
(*   SpecCreate   createBatch from the parsed table to the ledger record   *)
(*   SpecPoll     the scheduler polling two jobs for as long as the page   *)
(*                stays open, with the fairness of timer and executions    *)
(*   SpecCache    the service worker's fetch handlers and its two caches   *)
(* Each specification leaves the variables of the others at their idle     *)
(* values.                                                                 *)
(***************************************************************************)
EXTENDS Integers, Sequences, FiniteSets, TLC

VARIABLES
  \* --- request compiler ---
  connections,   \* the parsed rows handed to the compiler
  compiler,      \* "none" | "app" | "standalone": which compiler has run
  jsonl,         \* the compiler's output: the JSONL document, one request per line
  \* --- schema validator ---
  schema,        \* the schema handed to validateStrictSchema
  validation,    \* [done, valid, errors]: the validator's result once it has run
  \* --- result merge ---
  mergeRows,     \* the rows parsed from the contacts table
  rawDoc,        \* the raw result document, a sequence of lines
  mergeOut,      \* [done, success, data, stats, error]: processBatchResults' result
  mergePrev,     \* the result of the call before, once the merge has run again
  \* --- ledger, lifecycle client, scheduler ---
  store,         \* the value under the "batches" key: a sequence of StoredBatch
  remote,        \* the remote service: per job id, [exists, status, total]
  uploads,       \* the ids of the artifacts uploaded to the remote service
  now,           \* the reading of Date.now()
  apiKey,        \* whether a credential is stored
  source,        \* "noZip" | "noCsv" | "empty" | "table": what the row source yields
  interval,      \* whether the page's 60-second interval is set
  started,       \* the number of call chains started so far
  deleted,       \* the job ids the user has asked to delete (history)
  reported,      \* per job id, the statuses the remote's responses carried (history)
  openAIBatches, \* the job ids in the page's list of the remote service's jobs
  known,         \* the job ids submitted or imported by this client (history)
  procs,         \* the asynchronous call chains in flight, by slot
  \* --- contact table: parse, export, parse again ---
  csvText,       \* the table's text: a sequence of lines, each a sequence of characters
  csvStage,      \* "text" | "parsed" | "exported" | "reparsed"
  csvRows,       \* parseConnectionsCSV(csvText)
  csvExport,     \* exportToCSV(csvRows), split into lines
  csvAgain,      \* parseConnectionsCSV of the exported text
  \* --- service worker caches ---
  swCache,       \* per cache ("mapbox", "image"), its entries in insertion order
  swClock,       \* the reading of new Date(), in days
  swProcs,       \* the fetch handlers in flight, by slot
  swPuts,        \* the cache.put calls issued and not yet carried out
  swStarted      \* the number of fetch events so far

compileVars == <<connections, compiler, jsonl>>
schemaVars  == <<schema, validation>>
mergeVars   == <<mergeRows, rawDoc, mergeOut, mergePrev>>
csvVars     == <<csvText, csvStage, csvRows, csvExport, csvAgain>>
swVars      == <<swCache, swClock, swProcs, swPuts, swStarted>>
ledgerVars  ==
  <<store, remote, uploads, now, apiKey, source, interval, started, deleted,
    reported, openAIBatches, known, procs>>

(***************************************************************************)
(* Bounds                                                                  *)
(***************************************************************************)
MaxRows == 3
MaxDepth == 3
MaxLines == 2
MaxMergeRows == 2
MaxChains == 3
MaxCsvLines == 1
MaxMapboxItems == 2
MaxImageItems == 1
MaxRequests == 3
MaxDay == 8
TableRows == 2

(***************************************************************************)
(* JSON schema documents.  A node is a record                              *)
(*   type      the "type" member ("object", "array", or a leaf type)       *)
(*   hasProps  whether "properties" is present (truthy)                    *)
(*   props     the "properties" member, a function from keys to nodes      *)
(*   hasReq    whether "required" is present and an array                  *)
(*   req       the entries of "required"                                   *)
(*   addl      "false" | "true" | "absent": the additionalProperties member*)
(*   items     <<>> or <<node>>: the "items" member                        *)
(***************************************************************************)
Leaf(t) ==
  [type |-> t, hasProps |-> FALSE, props |-> <<>>, hasReq |-> FALSE,
   req |-> {}, addl |-> "absent", items |-> <<>>]

Obj(p, r, ad) ==
  [type |-> "object", hasProps |-> TRUE, props |-> p, hasReq |-> TRUE,
   req |-> r, addl |-> ad, items |-> <<>>]

ObjNoRequired(p, ad) ==
  [type |-> "object", hasProps |-> TRUE, props |-> p, hasReq |-> FALSE,
   req |-> {}, addl |-> ad, items |-> <<>>]

Arr(it) ==
  [type |-> "array", hasProps |-> FALSE, props |-> <<>>, hasReq |-> FALSE,
   req |-> {}, addl |-> "absent", items |-> it]

\* Object.keys / Object.entries enumerate keys in insertion order; every object
\* of the model lists its keys in the order of this sequence.
KeyOrder ==
  <<"loc", "stats", "city", "country", "lat", "lng", "conn", "foll",
    "current_location", "location_move_date", "linkedin_stats", "about",
    "education", "data_freshness", "sources", "state", "latitude",
    "longitude", "openstreetmap_id", "connections", "followers",
    "institution", "degree", "field_of_study", "start_year", "end_year",
    "a", "b", "z">>

KeySeq(S) == SelectSeq(KeyOrder, LAMBDA k : k \in S)

\* The schema literal of generateBatchJSONL (the app's compiler).
MINIMAL_SCHEMA ==
  Obj([k \in {"loc", "stats"} |->
         IF k = "loc"
         THEN Obj([j \in {"city", "country", "lat", "lng"} |->
                     IF j \in {"city", "country"} THEN Leaf("string|null")
                     ELSE Leaf("number|null")],
                  {"city", "country", "lat", "lng"}, "false")
         ELSE Obj([j \in {"conn", "foll"} |-> Leaf("integer|null")],
                  {"conn", "foll"}, "false")],
      {"loc", "stats"}, "false")

\* The schema literal of the standalone processor.
LOCATION_INFO_SCHEMA ==
  Obj([k \in {"current_location", "location_move_date", "linkedin_stats",
              "about", "education", "data_freshness", "sources"} |->
         CASE k = "current_location" ->
                Obj([j \in {"city", "state", "country", "latitude", "longitude",
                            "openstreetmap_id"} |->
                       CASE j \in {"city", "country"} -> Leaf("string")
                         [] j \in {"latitude", "longitude"} -> Leaf("number|null")
                         [] OTHER -> Leaf("string|null")],
                    {"city", "country"}, "false")
           [] k = "linkedin_stats" ->
                ObjNoRequired([j \in {"connections", "followers"} |->
                                 Leaf("integer|null")], "false")
           [] k = "education" ->
                Arr(<<Obj([j \in {"institution", "degree", "field_of_study",
                                  "start_year", "end_year"} |->
                             CASE j = "institution" -> Leaf("string")
                               [] j \in {"start_year", "end_year"} ->
                                    Leaf("integer|null")
                               [] OTHER -> Leaf("string|null")],
                          {"institution"}, "false")>>)
           [] k = "sources" -> Arr(<<Leaf("string")>>)
           [] k = "data_freshness" -> Leaf("string")
           [] OTHER -> Leaf("string|null")],
      {"current_location", "linkedin_stats", "data_freshness"}, "false")

(***************************************************************************)
(* validateStrictSchema (schema-validator.ts).  An error string            *)
(* `${path}: <message>` is the record [path, problem, missing].            *)
(***************************************************************************)
SchemaError(path, problem, missing) ==
  [path |-> path, problem |-> problem, missing |-> missing]

RECURSIVE validateStrictSchema(_, _)
RECURSIVE nestedErrors(_, _, _)

\* The loop over Object.entries(schema.properties), lines 55-75.
nestedErrors(sch, path, keys) ==
  IF keys = <<>> THEN <<>>
  ELSE LET key == Head(keys)
           propSchema == sch.props[key]
           nestedResult ==
             IF propSchema.type = "object"
             THEN validateStrictSchema(propSchema, path \o "." \o key).errors
             ELSE <<>>
           itemsResult ==
             IF /\ propSchema.type = "array"
                /\ propSchema.items # <<>>
                /\ propSchema.items[1].type = "object"
             THEN validateStrictSchema(propSchema.items[1],
                                       path \o "." \o key \o "[items]").errors
             ELSE <<>>
       IN nestedResult \o itemsResult \o nestedErrors(sch, path, Tail(keys))

validateStrictSchema(sch, path) ==
  IF sch.type = "object"
  THEN IF ~sch.hasProps
       THEN [valid |-> FALSE,
             errors |-> <<SchemaError(path, "no properties", <<>>)>>]
       ELSE IF ~sch.hasReq
       THEN [valid |-> FALSE,
             errors |-> <<SchemaError(path, "no required array", <<>>)>>]
       ELSE LET propertyKeys == KeySeq(DOMAIN sch.props)
                missingRequired ==
                  SelectSeq(propertyKeys, LAMBDA key : key \notin sch.req)
                e1 == IF Len(missingRequired) > 0
                      THEN <<SchemaError(path, "required misses properties",
                                         missingRequired)>>
                      ELSE <<>>
                e2 == IF sch.addl # "false"
                      THEN <<SchemaError(path, "additionalProperties not false",
                                         <<>>)>>
                      ELSE <<>>
                errors == e1 \o e2 \o nestedErrors(sch, path, propertyKeys)
            IN [valid |-> errors = <<>>, errors |-> errors]
  ELSE [valid |-> TRUE, errors |-> <<>>]

(***************************************************************************)
(* The request compilers.                                                  *)
(***************************************************************************)
OrUnknown(s) == IF s = "" THEN "Unknown" ELSE s

\* generatePrompt of the app (page.tsx:599-607).
generatePrompt(person) ==
  person.firstName \o " " \o person.lastName \o " at "
    \o OrUnknown(person.company) \o " (" \o OrUnknown(person.position)
    \o "). Infer: location (city, country, lat/lng), LinkedIn stats (connections/followers). Use null if unknown."

\* A compiler that numbers the requests from zero.
customId_ZeroBased(index) == "req-" \o ToString(index)

\* custom_id: `req-${index + 1}` (page.tsx:654).
customId(index) == "req-" \o ToString(index + 1)

\* connections.map((person, index) => ...) with index = i - 1.
generateBatchJSONL(conns) ==
  [i \in 1..Len(conns) |->
     [custom_id |-> customId(i - 1),
      method |-> "POST",
      url |-> "/v1/chat/completions",
      model |-> "gpt-4o-mini",
      system |-> "Return location and stats in JSON. Infer if needed.",
      user |-> generatePrompt(conns[i]),
      schemaName |-> "profile",
      strict |-> TRUE,
      schema |-> MINIMAL_SCHEMA]]

\* generateBatchJSONL of the standalone processor.  The names of RowPool hold
\* no whitespace, so .replace(/\s+/g, '-') leaves the id as it is.
standaloneGenerateBatchJSONL(conns) ==
  [i \in 1..Len(conns) |->
     [custom_id |-> "request-" \o ToString((i - 1) + 1) \o "-"
                      \o conns[i].firstName \o "-" \o conns[i].lastName,
      method |-> "POST",
      url |-> "/v1/chat/completions",
      model |-> "gpt-4o-mini-search-preview-2025-03-11",
      system |-> "You are a helpful assistant that searches the web for professional information about individuals.",
      user |-> conns[i].firstName \o " " \o conns[i].lastName,
      schemaName |-> "location_info",
      strict |-> TRUE,
      schema |-> LOCATION_INFO_SCHEMA]]

(***************************************************************************)
(* Rows.  parseConnectionsCSV stores "" for an empty field.                *)
(***************************************************************************)
Row(f, l, c, p) ==
  [firstName |-> f, lastName |-> l, url |-> "https://www.linkedin.com/in/" \o f,
   emailAddress |-> "", company |-> c, position |-> p, connectedOn |-> ""]

RowPool == {Row("Ann", "Lee", "Acme", "Eng"), Row("Bob", "Ray", "", ""),
            Row("Cy", "Dow", "Initech", "")}

RECURSIVE SeqsUpTo(_, _)
SeqsUpTo(S, n) ==
  IF n = 0 THEN {<<>>}
  ELSE LET shorter == SeqsUpTo(S, n - 1)
       IN shorter \cup {Append(s, x) : s \in {t \in shorter : Len(t) = n - 1}, x \in S}

(***************************************************************************)
(* The job ledger (batch-storage.ts).  A StoredBatch is a record; "" and   *)
(* NoCounts stand for a member that is undefined or null.                  *)
(***************************************************************************)
BatchStatus ==
  {"validating", "failed", "in_progress", "finalizing", "completed",
   "expired", "cancelling", "cancelled"}

NoCounts == [total |-> 0, completed |-> 0, failed |-> 0]

StoredBatch(id, created, status, fileId, count) ==
  [batchId |-> id, createdAt |-> created, status |-> status, fileId |-> fileId,
   outputFileId |-> "", errorFileId |-> "", requestCounts |-> NoCounts,
   connectionsCount |-> count, lastChecked |-> 0]

\* getAllBatches: the stored array, [] when the key is absent.
getAllBatches(st) == st

\* batches.findIndex((b) => b.batchId === id): 0 stands for -1.
findIndex(batches, id) ==
  IF \E n \in 1..Len(batches) : batches[n].batchId = id
  THEN CHOOSE n \in 1..Len(batches) :
         /\ batches[n].batchId = id
         /\ \A m \in 1..(n - 1) : batches[m].batchId # id
  ELSE 0

\* batches.sort((a, b) => b.createdAt - a.createdAt): a stable sort, newest
\* first, by insertion.
RECURSIVE insertByCreatedAt(_, _)
insertByCreatedAt(sorted, b) ==
  IF sorted = <<>> THEN <<b>>
  ELSE IF Head(sorted).createdAt >= b.createdAt
  THEN <<Head(sorted)>> \o insertByCreatedAt(Tail(sorted), b)
  ELSE <<b>> \o sorted

\* An addBatch that stores the array unsorted.
sortNewestFirst_Unsorted(batches) == batches

RECURSIVE sortNewestFirst(_)
sortNewestFirst(batches) ==
  IF batches = <<>> THEN <<>>
  ELSE insertByCreatedAt(sortNewestFirst(SubSeq(batches, 1, Len(batches) - 1)),
                         batches[Len(batches)])

\* An addBatch that pushes without looking for the job id.
addBatchLocal_AlwaysPush(batches, batch) ==
  sortNewestFirst(Append(batches, batch))

\* addBatch between its read and its put: replace or push, then sort.
addBatchLocal(batches, batch) ==
  LET existingIndex == findIndex(batches, batch.batchId)
  IN sortNewestFirst(IF existingIndex > 0
                     THEN [batches EXCEPT ![existingIndex] = batch]
                     ELSE Append(batches, batch))

\* updateBatchStatus between its read and its put, for a batch that was found.
updateBatchLocal(batches, id, status, time, additionalData) ==
  LET n == findIndex(batches, id)
  IN [batches EXCEPT ![n] =
        [@ EXCEPT !.status = status,
                  !.lastChecked = time,
                  !.requestCounts = additionalData.requestCounts,
                  !.outputFileId = additionalData.outputFileId,
                  !.errorFileId = additionalData.errorFileId]]

\* deleteBatch's filter.
deleteBatchLocal(batches, id) ==
  SelectSeq(batches, LAMBDA b : b.batchId # id)

\* A listing that leaves the filter out.
getPendingBatches_All(st) == getAllBatches(st)

\* getPendingBatches' filter.
getPendingBatches(st) ==
  SelectSeq(getAllBatches(st),
            LAMBDA b : /\ b.status # "completed"
                       /\ b.status # "failed"
                       /\ b.status # "expired"
                       /\ b.status # "cancelled")

BatchIdsOf(batches) == {batches[n].batchId : n \in 1..Len(batches)}

(***************************************************************************)
(* The remote service.  A job moves along its lifecycle on its own:         *)
(* validating, then in_progress or failed, then completed.  The status     *)
(* "paused" stands for a status string outside the eight the app knows.    *)
(* At most two artifacts and two jobs are opened.                          *)
(***************************************************************************)
RemoteJobIds == {"batch_1", "batch_2"}
RemoteFileIds == {"file_1", "file_2"}

NoJob == [exists |-> FALSE, status |-> "", total |-> 0]

RemoteNext(status) ==
  CASE status = "validating" -> {"in_progress", "failed"}
    [] status = "in_progress" -> {"completed", "paused"}
    [] status = "paused" -> {"in_progress"}
    [] OTHER -> {}

\* The body of GET /batches/{id} for a job.
statusBody_Reinterpreted(job, id) ==
  [status |-> IF job.status \in BatchStatus THEN job.status ELSE "in_progress",
   request_counts |->
     [total |-> job.total,
      completed |-> IF job.status = "completed" THEN job.total ELSE 0,
      failed |-> 0],
   output_file_id |-> IF job.status = "completed" THEN "out_" \o id ELSE "",
   error_file_id |-> ""]

statusBody(job, id) ==
  [status |-> job.status,
   request_counts |->
     [total |-> job.total,
      completed |-> IF job.status = "completed" THEN job.total ELSE 0,
      failed |-> 0],
   output_file_id |-> IF job.status = "completed" THEN "out_" \o id ELSE "",
   error_file_id |-> ""]

NoBody == statusBody(NoJob, "")

(***************************************************************************)
(* Call chains.  A slot holds one asynchronous call chain, suspended at    *)
(* pc:                                                                     *)
(*   tick     pollPendingBatches: "list" -> ("check" -> "updateRead" ->    *)
(*            "updateWrite")* -> idle                                      *)
(*   refresh  handleRefreshStatus: "check" -> "updateRead" -> "updateWrite"*)
(*   submit   createBatch: "upload" -> "open" -> "addRead" -> "addWrite"   *)
(*   delete   handleDeleteBatch: "deleteRead" -> "deleteWrite"             *)
(* The steps are the code's suspension points: each network call and each  *)
(* IndexedDB transaction is one step.  Two ticks and one user action can   *)
(* be in flight together, and MaxChains chains are started in all.  The    *)
(* reattach path of SpecImport runs in a slot of its own, so that an       *)
(* import can overlap a submission.                                        *)
(***************************************************************************)
TickProcs == {"tick1", "tick2"}
UserProcs == {"user1"}
ImportProcs == {"import1"}
Procs == TickProcs \cup UserProcs \cup ImportProcs

\* Slot fields: kind and pc as above; pending, the ids a tick has still to
\* poll (the current one first); batchId, the job the chain works on; body,
\* the remote's status body; batches, the array read from the store and
\* changed in memory; fileId, count, created, the members of the record a
\* submit builds; result, the error or "ok" a submit reports; failed, the
\* jobs whose checkBatchStatus returned success: false in this tick (history).
IdleProc ==
  [kind |-> "none", pc |-> "idle", pending |-> <<>>, batchId |-> "",
   body |-> NoBody, batches |-> <<>>, fileId |-> "", count |-> 0,
   created |-> 0, result |-> "", failed |-> {}]

IdleLedger ==
  /\ store = <<>>
  /\ remote = [id \in RemoteJobIds |-> NoJob]
  /\ uploads = {}
  /\ now = 0
  /\ apiKey = FALSE
  /\ source = "noZip"
  /\ interval = FALSE
  /\ started = 0
  /\ deleted = {}
  /\ reported = [id \in RemoteJobIds |-> {}]
  /\ openAIBatches = {}
  /\ known = {}
  /\ procs = [p \in Procs |-> IdleProc]

\* The idle values of the variables a specification does not use.
NoStats ==
  [total |-> 0, enriched |-> 0, withLocation |-> 0, withStats |-> 0, errors |-> 0]

NotMerged ==
  [done |-> FALSE, success |-> FALSE, data |-> <<>>, stats |-> NoStats,
   error |-> ""]

IdleMerge ==
  mergeRows = <<>> /\ rawDoc = <<>> /\ mergeOut = NotMerged /\ mergePrev = NotMerged

NotValidated == [done |-> FALSE, valid |-> FALSE, errors |-> <<>>]

IdleSchema == schema = Leaf("string") /\ validation = NotValidated
IdleCompile == connections = <<>> /\ compiler = "idle" /\ jsonl = <<>>
IdleCsv ==
  /\ csvText = <<>>
  /\ csvStage = "idle"
  /\ csvRows = <<>>
  /\ csvExport = <<>>
  /\ csvAgain = <<>>

IdleSw ==
  /\ swCache = [c \in {"mapbox", "image"} |-> <<>>]
  /\ swClock = 0
  /\ swProcs = <<>>
  /\ swPuts = <<>>
  /\ swStarted = 0

(***************************************************************************)
(* SpecCompile                                                             *)
(***************************************************************************)
InitCompile ==
  /\ connections \in SeqsUpTo(RowPool, MaxRows)
  /\ compiler = "none"
  /\ jsonl = <<>>
  /\ IdleSchema
  /\ IdleMerge
  /\ IdleLedger
  /\ IdleCsv
  /\ IdleSw

\* The app's compiler runs on the rows.
Compile ==
  /\ compiler = "none"
  /\ compiler' = "app"
  /\ jsonl' = generateBatchJSONL(connections)
  /\ UNCHANGED <<connections, schemaVars, mergeVars, ledgerVars, csvVars, swVars>>

\* The standalone processor's compiler runs on the rows.
CompileStandalone ==
  /\ compiler = "none"
  /\ compiler' = "standalone"
  /\ jsonl' = standaloneGenerateBatchJSONL(connections)
  /\ UNCHANGED <<connections, schemaVars, mergeVars, ledgerVars, csvVars, swVars>>

NextCompile == Compile \/ CompileStandalone

vars == <<compileVars, schemaVars, mergeVars, ledgerVars, csvVars, swVars>>

SpecCompile == InitCompile /\ [][NextCompile]_vars

(***************************************************************************)
(* Bounded schema trees for SpecSchema.  An object node has the property   *)
(* "a" (any smaller tree) and possibly "b" (a leaf); its required array is *)
(* absent, any subset of its keys, or all its keys and "z", which names no *)
(* property; additionalProperties is false or absent.  An array node has   *)
(* items (any smaller tree, possibly itself wrapped in one more array) or  *)
(* none.                                                                   *)
(***************************************************************************)
PropMaps(children) ==
  {[k \in {"a"} |-> c] : c \in children}
    \cup {[k \in {"a", "b"} |-> IF k = "a" THEN c ELSE Leaf("string")] :
            c \in children}

ObjectNodes(children) ==
  UNION {{Obj(p, r, ad) : r \in SUBSET (DOMAIN p), ad \in {"false", "absent"}}
           \cup {Obj(p, DOMAIN p \cup {"z"}, "false")}
           \cup {ObjNoRequired(p, ad) : ad \in {"false", "absent"}} :
         p \in PropMaps(children)}
    \cup {[type |-> "object", hasProps |-> FALSE, props |-> <<>>,
           hasReq |-> hr, req |-> {}, addl |-> "absent", items |-> <<>>] :
          hr \in BOOLEAN}

ArrayNodes(children) ==
  {Arr(<<c>>) : c \in children} \cup {Arr(<<Arr(<<c>>)>>) : c \in children}
    \cup {Arr(<<>>)}

RECURSIVE SchemaTrees(_)
SchemaTrees(d) ==
  IF d = 0 THEN {Leaf("string")}
  ELSE LET smaller == SchemaTrees(d - 1)
       IN smaller \cup ObjectNodes(smaller) \cup ArrayNodes(smaller)

(***************************************************************************)
(* SpecSchema: validateStrictSchema on a schema whose root is an object.   *)
(***************************************************************************)
InitSchema ==
  /\ schema \in {s \in SchemaTrees(MaxDepth) : s.type = "object"}
  /\ validation = NotValidated
  /\ IdleCompile
  /\ IdleMerge
  /\ IdleLedger
  /\ IdleCsv
  /\ IdleSw

Validate ==
  /\ ~validation.done
  /\ validation' = [done |-> TRUE,
                    valid |-> validateStrictSchema(schema, "root").valid,
                    errors |-> validateStrictSchema(schema, "root").errors]
  /\ UNCHANGED <<schema, compileVars, mergeVars, ledgerVars, csvVars, swVars>>

NextSchema == Validate

SpecSchema == InitSchema /\ [][NextSchema]_vars

(***************************************************************************)
(* The result merge (batch-results.ts).                                    *)
(*                                                                         *)
(* JSON values met by the merge: Undefined (a missing member), JsonNull,   *)
(* and objects [k |-> "object", fields |-> ...].  A string is "" where the *)
(* code holds undefined or null, which the code's truthiness tests treat   *)
(* alike.                                                                  *)
(***************************************************************************)
Undefined == [k |-> "undefined"]
JsonNull == [k |-> "null"]
EmptyObj == [k |-> "object", fields |-> <<>>]
AustinLoc ==
  [k |-> "object",
   fields |-> [city |-> "Austin", country |-> "US", lat |-> 30, lng |-> -97]]
SomeStats == [k |-> "object", fields |-> [conn |-> 500, foll |-> 12]]

\* JavaScript truthiness of a JSON value.
Truthy(v) == v.k \notin {"undefined", "null"}

\* v || undefined
OrUndefined(v) == IF Truthy(v) THEN v ELSE Undefined

\* message.content of a result item:
\*   "none"  no choices[0].message.content, or an empty string
\*   "text"  content that JSON.parse rejects
\*   "json"  content that parses to doc: JsonNull, or an object with loc and stats
Content(kind, doc) == [kind |-> kind, doc |-> doc]
Doc(loc, stats) == [k |-> "object", loc |-> loc, stats |-> stats]
NoContent == Content("none", JsonNull)

NoResponse == [present |-> FALSE, status_code |-> 0, content |-> NoContent]
Response(code, content) ==
  [present |-> TRUE, status_code |-> code, content |-> content]

NoItemError == [present |-> FALSE, message |-> ""]
ItemError(m) == [present |-> TRUE, message |-> m]

Item(id, response, error) ==
  [custom_id |-> id, response |-> response, error |-> error]

\* A line of the raw document: blank, not JSON, or a result item.
BlankLine == [kind |-> "blank", item |-> Item("", NoResponse, NoItemError)]
MalformedLine == [kind |-> "malformed", item |-> Item("", NoResponse, NoItemError)]
ItemLine(item) == [kind |-> "item", item |-> item]

\* An API error dropped without its prefix.
apiErrorText_Raw(message) == message

\* `API Error: ${item.error.message}` (batch-results.ts:105).
apiErrorText(message) == "API Error: " \o message

\* extractEnrichmentData: [threw, location, stats, error].  threw: the
\* TypeError of item.response.status_code on an item without a response, which
\* is raised outside the function's try block.
Extracted(location, stats, error) ==
  [threw |-> FALSE, location |-> location, stats |-> stats, error |-> error]

extractEnrichmentData(item) ==
  IF item.error.present
  THEN Extracted(Undefined, Undefined, apiErrorText(item.error.message))
  ELSE IF ~item.response.present
  THEN [threw |-> TRUE, location |-> Undefined, stats |-> Undefined,
        error |-> "Cannot read properties of undefined (reading 'status_code')"]
  ELSE IF item.response.status_code # 200
  THEN Extracted(Undefined, Undefined,
                 "HTTP " \o ToString(item.response.status_code))
  ELSE LET content == item.response.content
       IN IF content.kind = "none"
          THEN Extracted(Undefined, Undefined, "No content in response")
          ELSE IF content.kind = "text"
          THEN Extracted(Undefined, Undefined, "Unexpected token in JSON")
          ELSE IF content.doc.k = "null"
          THEN Extracted(Undefined, Undefined,
                         "Cannot read properties of null (reading 'loc')")
          ELSE Extracted(OrUndefined(content.doc.loc),
                         OrUndefined(content.doc.stats), "")

\* parseBatchResults: the non-blank lines, each parsed; a line that is not
\* JSON makes JSON.parse throw.
NonBlank(lines) == SelectSeq(lines, LAMBDA line : line.kind # "blank")

\* A parser that drops the lines that are not JSON.
parseBatchResults_SkipMalformed(jsonlText) ==
  LET lines == SelectSeq(jsonlText, LAMBDA line : line.kind = "item")
  IN [threw |-> FALSE,
      items |-> [n \in 1..Len(lines) |-> lines[n].item]]

parseBatchResults(jsonlText) ==
  LET lines == NonBlank(jsonlText)
  IN [threw |-> \E n \in 1..Len(lines) : lines[n].kind = "malformed",
      items |-> [n \in 1..Len(lines) |-> lines[n].item]]

\* A map keyed by the position of the result instead of its custom_id.
RECURSIVE resultsMap_ByPosition(_, _)
resultsMap_ByPosition(batchResults, n) ==
  IF n = 0 THEN <<>>
  ELSE (("req-" \o ToString(n)) :> batchResults[n])
         @@ resultsMap_ByPosition(batchResults, n - 1)

\* resultsMap after the loop of lines 156-158 over the first n results.
RECURSIVE resultsMap(_, _)
resultsMap(batchResults, n) ==
  IF n = 0 THEN <<>>
  ELSE (batchResults[n].custom_id :> batchResults[n])
         @@ resultsMap(batchResults, n - 1)

\* A flag that asks for a location and overlooks the stats.
enrichedFlag_LocationOnly(error, location, stats) ==
  error = "" /\ Truthy(location)

\* A flag that looks at the error alone.
enrichedFlag_ErrorOnly(error, location, stats) == error = ""

\* !error && (!!location || !!stats) (batch-results.ts:174).
enrichedFlag(error, location, stats) ==
  error = "" /\ (Truthy(location) \/ Truthy(stats))

\* A merge that looks a row's item up under the next row's correlation id.
mergeRow_NextId(connection, index, map) ==
  LET id == "req-" \o ToString(index + 2)
      base == [firstName |-> connection.firstName,
               lastName |-> connection.lastName,
               url |-> connection.url,
               emailAddress |-> connection.emailAddress,
               company |-> connection.company,
               position |-> connection.position,
               connectedOn |-> connection.connectedOn,
               threw |-> FALSE,
               enriched |-> FALSE,
               location |-> Undefined,
               stats |-> Undefined,
               error |-> ""]
  IN IF id \notin DOMAIN map THEN base
     ELSE LET x == extractEnrichmentData(map[id])
          IN [base EXCEPT !.threw = x.threw,
                          !.location = x.location,
                          !.stats = x.stats,
                          !.enriched = enrichedFlag(x.error, x.location, x.stats),
                          !.error = x.error]

\* A merge that marks a row without a result item as failed.
mergeRow_AbsentIsError(connection, index, map) ==
  LET id == "req-" \o ToString(index + 1)
      base == [firstName |-> connection.firstName,
               lastName |-> connection.lastName,
               url |-> connection.url,
               emailAddress |-> connection.emailAddress,
               company |-> connection.company,
               position |-> connection.position,
               connectedOn |-> connection.connectedOn,
               threw |-> FALSE,
               enriched |-> FALSE,
               location |-> Undefined,
               stats |-> Undefined,
               error |-> ""]
  IN IF id \notin DOMAIN map THEN [base EXCEPT !.error = "No result"]
     ELSE LET x == extractEnrichmentData(map[id])
          IN [base EXCEPT !.threw = x.threw,
                          !.location = x.location,
                          !.stats = x.stats,
                          !.enriched = enrichedFlag(x.error, x.location, x.stats),
                          !.error = x.error]

\* One row of the merge, lines 161-181; index is 0-based.
mergeRow(connection, index, map) ==
  LET id == "req-" \o ToString(index + 1)
      base == [firstName |-> connection.firstName,
               lastName |-> connection.lastName,
               url |-> connection.url,
               emailAddress |-> connection.emailAddress,
               company |-> connection.company,
               position |-> connection.position,
               connectedOn |-> connection.connectedOn,
               threw |-> FALSE,
               enriched |-> FALSE,
               location |-> Undefined,
               stats |-> Undefined,
               error |-> ""]
  IN IF id \notin DOMAIN map THEN base
     ELSE LET x == extractEnrichmentData(map[id])
          IN [base EXCEPT !.threw = x.threw,
                          !.location = x.location,
                          !.stats = x.stats,
                          !.enriched = enrichedFlag(x.error, x.location, x.stats),
                          !.error = x.error]

\* A merge that emits a row only where a result item was found.
mergeConnectionsWithResults_OnlyMatched(conns, batchResults) ==
  LET map == resultsMap(batchResults, Len(batchResults))
      matched == SelectSeq([n \in 1..Len(conns) |-> n],
                           LAMBDA n : ("req-" \o ToString(n)) \in DOMAIN map)
  IN [threw |-> FALSE,
      rows |-> [m \in 1..Len(matched) |->
                  mergeRow(conns[matched[m]], matched[m] - 1, map)],
      error |-> ""]

mergeConnectionsWithResults(conns, batchResults) ==
  LET map == resultsMap(batchResults, Len(batchResults))
      rows == [n \in 1..Len(conns) |-> mergeRow(conns[n], n - 1, map)]
      thrower == {n \in 1..Len(rows) : rows[n].threw}
  IN IF thrower = {}
     THEN [threw |-> FALSE, rows |-> rows, error |-> ""]
     ELSE [threw |-> TRUE, rows |-> <<>>,
           error |-> rows[CHOOSE n \in thrower : \A m \in thrower : n <= m].error]

\* A counter incremented for every row, whatever its flag.
Count_EveryRow(flags) == Len(flags)

\* A counter that is not reset between two calls.
Count_Carried(flags) ==
  mergeOut.stats.total + Cardinality({n \in DOMAIN flags : flags[n]})

\* A counter incremented once per row whose flag holds (lines 233-238).
Count(flags) == Cardinality({n \in DOMAIN flags : flags[n]})

MergeFailure(message) ==
  [done |-> TRUE, success |-> FALSE, data |-> <<>>, stats |-> NoStats,
   error |-> message]

\* processBatchResults, on the rows parseConnectionsCSV yields for csvText.
processBatchResults(conns, jsonlText) ==
  IF Len(conns) = 0 THEN MergeFailure("No connections found in CSV")
  ELSE LET parsed == parseBatchResults(jsonlText)
       IN IF parsed.threw THEN MergeFailure("Unexpected token in JSON")
          ELSE IF Len(parsed.items) = 0
          THEN MergeFailure("No results found in batch output")
          ELSE LET merged == mergeConnectionsWithResults(conns, parsed.items)
               IN IF merged.threw THEN MergeFailure(merged.error)
                  ELSE [done |-> TRUE,
                        success |-> TRUE,
                        data |-> merged.rows,
                        stats |->
                          [total |-> Len(merged.rows),
                           enriched |->
                             Count([n \in DOMAIN merged.rows |->
                                      merged.rows[n].enriched]),
                           withLocation |->
                             Count([n \in DOMAIN merged.rows |->
                                      Truthy(merged.rows[n].location)]),
                           withStats |->
                             Count([n \in DOMAIN merged.rows |->
                                      Truthy(merged.rows[n].stats)]),
                           errors |->
                             Count([n \in DOMAIN merged.rows |->
                                      merged.rows[n].error # ""])],
                        error |-> ""]

(***************************************************************************)
(* SpecMerge: processBatchResults on the first N rows of the table and a   *)
(* result document of at most MaxLines lines.                              *)
(***************************************************************************)
RowList == <<Row("Ann", "Lee", "Acme", "Eng"), Row("Bob", "Ray", "", ""),
             Row("Cy", "Dow", "Initech", "")>>

RowAt(n) == RowList[((n - 1) % Len(RowList)) + 1]

FirstRows(n) == [m \in 1..n |-> RowAt(m)]

ResultIds == {"req-" \o ToString(n) : n \in 1..MaxMergeRows}

DocPool ==
  {Doc(JsonNull, JsonNull), Doc(EmptyObj, JsonNull), Doc(JsonNull, SomeStats),
   Doc(AustinLoc, EmptyObj)}

ContentPool ==
  {NoContent, Content("text", JsonNull), Content("json", JsonNull)}
    \cup {Content("json", d) : d \in DocPool}

ItemPool ==
  {Item(id, r, NoItemError) :
     id \in ResultIds,
     r \in {NoResponse, Response(500, NoContent)}
             \cup {Response(200, c) : c \in ContentPool}}
    \cup {Item(id, r, ItemError("boom")) :
            id \in ResultIds,
            r \in {NoResponse,
                   Response(200, Content("json", Doc(AustinLoc, EmptyObj)))}}

LinePool == {BlankLine, MalformedLine} \cup {ItemLine(it) : it \in ItemPool}

InitMerge ==
  /\ mergeRows \in {FirstRows(n) : n \in 0..MaxMergeRows}
  /\ rawDoc \in SeqsUpTo(LinePool, MaxLines)
  /\ mergeOut = NotMerged
  /\ mergePrev = NotMerged
  /\ IdleCompile
  /\ IdleSchema
  /\ IdleLedger
  /\ IdleCsv
  /\ IdleSw

Merge ==
  /\ ~mergeOut.done
  /\ mergeOut' = processBatchResults(mergeRows, rawDoc)
  /\ UNCHANGED <<mergeRows, rawDoc, mergePrev, compileVars, schemaVars,
                 ledgerVars, csvVars, swVars>>

\* The client merges again, with the same table and the same document.
MergeAgain ==
  /\ mergeOut.done
  /\ ~mergePrev.done
  /\ mergePrev' = mergeOut
  /\ mergeOut' = processBatchResults(mergeRows, rawDoc)
  /\ UNCHANGED <<mergeRows, rawDoc, compileVars, schemaVars, ledgerVars, csvVars, swVars>>

NextMerge == Merge \/ MergeAgain

SpecMerge == InitMerge /\ [][NextMerge]_vars

(***************************************************************************)
(* Spec: the ledger, the lifecycle client and the poll scheduler.          *)
(***************************************************************************)
Init ==
  /\ store = <<>>
  /\ remote = [id \in RemoteJobIds |-> NoJob]
  /\ uploads = {}
  /\ now = 1
  /\ apiKey \in BOOLEAN
  /\ source \in {"noZip", "noCsv", "empty", "table"}
  /\ interval = FALSE
  /\ started = 0
  /\ deleted = {}
  /\ reported = [id \in RemoteJobIds |-> {}]
  /\ openAIBatches = {}
  /\ known = {}
  /\ procs = [p \in Procs |-> IdleProc]
  /\ IdleCompile
  /\ IdleSchema
  /\ IdleMerge
  /\ IdleCsv
  /\ IdleSw

Idle(p) == procs[p].pc = "idle"

\* The slot a newly started tick takes.
FreeTick == IF Idle("tick1") THEN "tick1" ELSE "tick2"

\* The remote assigns ids in order.
FreshJobId == IF ~remote["batch_1"].exists THEN "batch_1" ELSE "batch_2"
FreshFileId == IF "file_1" \notin uploads THEN "file_1" ELSE "file_2"

Min(a, b) == IF a <= b THEN a ELSE b

\* The number of rows parseConnectionsCSV yields; no archive and no table end
\* createBatch before it parses.
Rows(src) == IF src = "table" THEN TableRows ELSE 0

\* connections.slice(0, limit) when a limit is given (0: no limit).
Sliced(rows, limit) == IF limit > 0 THEN Min(rows, limit) ELSE rows

\* The slot after a checkBatchStatus call has returned: a tick goes on to the
\* next pending job and ends after the last, a refresh ends.
AfterCheck(pr) ==
  IF pr.kind = "tick" /\ Len(pr.pending) > 1
  THEN [IdleProc EXCEPT !.kind = "tick", !.pc = "check",
                        !.pending = Tail(pr.pending),
                        !.batchId = pr.pending[2],
                        !.failed = pr.failed]
  ELSE IdleProc

\* The slot after checkBatchStatus has returned success: false (no credential,
\* a fetch that throws, a response that is not ok, an exception of
\* updateBatchStatus caught): the caller drops the result and goes on.
AfterFailure_AbortTick(pr) == IdleProc

AfterFailure(pr) ==
  AfterCheck([pr EXCEPT !.failed = @ \cup {pr.batchId}])

\* The credential is removed on the settings page.
DeleteApiKey ==
  /\ apiKey
  /\ apiKey' = FALSE
  /\ UNCHANGED <<deleted, reported, store, remote, uploads, now, source, interval, started, procs,
                 openAIBatches, known,
                 compileVars, schemaVars, mergeVars, csvVars, swVars>>

\* The remote service moves a job along its lifecycle.
RemoteAdvance(id) ==
  /\ remote[id].exists
  /\ \E s \in RemoteNext(remote[id].status) :
       remote' = [remote EXCEPT ![id].status = s]
  /\ UNCHANGED <<deleted, reported, store, uploads, now, apiKey, source, interval, started, procs,
                 openAIBatches, known,
                 compileVars, schemaVars, mergeVars, csvVars, swVars>>

\* A mount that only sets the interval and leaves the first poll to it.
Mount_TimerOnly ==
  /\ started < MaxChains
  /\ started' = started + 1
  /\ ~interval
  /\ interval' = TRUE
  /\ UNCHANGED <<deleted, reported, store, remote, uploads, now, apiKey, source, procs,
                 openAIBatches, known,
                 compileVars, schemaVars, mergeVars, csvVars, swVars>>

\* The process page mounts: the effect starts the first poll at once and sets
\* the 60-second interval.
Mount ==
  /\ started < MaxChains
  /\ started' = started + 1
  /\ ~interval
  /\ \E p \in TickProcs : Idle(p)
  /\ interval' = TRUE
  /\ procs' = [procs EXCEPT ![FreeTick] =
                 [IdleProc EXCEPT !.kind = "tick", !.pc = "list"]]
  /\ UNCHANGED <<deleted, reported, store, remote, uploads, now, apiKey, source,
                 openAIBatches, known,
                 compileVars, schemaVars, mergeVars, csvVars, swVars>>

\* The page unmounts: clearInterval.  Chains in flight go on.
Unmount ==
  /\ interval
  /\ interval' = FALSE
  /\ UNCHANGED <<deleted, reported, started, store, remote, uploads, now, apiKey, source, procs,
                 openAIBatches, known,
                 compileVars, schemaVars, mergeVars, csvVars, swVars>>

\* A timer that goes on firing after clearInterval.
IntervalFire_AfterStop ==
  /\ started < MaxChains
  /\ started' = started + 1
  /\ \E p \in TickProcs : Idle(p)
  /\ procs' = [procs EXCEPT ![FreeTick] =
                 [IdleProc EXCEPT !.kind = "tick", !.pc = "list"]]
  /\ UNCHANGED <<deleted, reported, store, remote, uploads, now, apiKey, source, interval,
                 openAIBatches, known,
                 compileVars, schemaVars, mergeVars, csvVars, swVars>>

\* The interval fires: pollPendingBatches is called, whatever else is running.
IntervalFire ==
  /\ started < MaxChains
  /\ started' = started + 1
  /\ interval
  /\ \E p \in TickProcs : Idle(p)
  /\ procs' = [procs EXCEPT ![FreeTick] =
                 [IdleProc EXCEPT !.kind = "tick", !.pc = "list"]]
  /\ UNCHANGED <<deleted, reported, store, remote, uploads, now, apiKey, source, interval,
                 openAIBatches, known,
                 compileVars, schemaVars, mergeVars, csvVars, swVars>>

\* pollPendingBatches: await getPendingBatches(); nothing more when empty.
TickList(p) ==
  /\ procs[p].pc = "list"
  /\ LET pending == getPendingBatches(store)
         ids == [n \in 1..Len(pending) |-> pending[n].batchId]
     IN procs' = [procs EXCEPT ![p] =
                    IF Len(ids) > 0
                    THEN [@ EXCEPT !.pc = "check", !.pending = ids,
                                   !.batchId = ids[1]]
                    ELSE IdleProc]
  /\ UNCHANGED <<deleted, reported, store, remote, uploads, now, apiKey, source, interval, started,
                 openAIBatches, known,
                 compileVars, schemaVars, mergeVars, csvVars, swVars>>

\* handleRefreshStatus(batchId) from a listed job's button.
RefreshStart(p, id) ==
  /\ started < MaxChains
  /\ started' = started + 1
  /\ Idle(p)
  /\ id \in BatchIdsOf(store)
  /\ procs' = [procs EXCEPT ![p] =
                 [IdleProc EXCEPT !.kind = "refresh", !.pc = "check",
                                  !.batchId = id]]
  /\ UNCHANGED <<deleted, reported, store, remote, uploads, now, apiKey, source, interval,
                 openAIBatches, known,
                 compileVars, schemaVars, mergeVars, csvVars, swVars>>

\* A checkBatchStatus that records a failed poll as the job's status.
CheckFails_MarksRecord(p) ==
  /\ procs[p].pc = "check"
  /\ store' = [n \in 1..Len(store) |->
                IF store[n].batchId = procs[p].batchId
                THEN [store[n] EXCEPT !.status = "failed", !.lastChecked = now]
                ELSE store[n]]
  /\ procs' = [procs EXCEPT ![p] = AfterFailure(@)]
  /\ UNCHANGED <<deleted, reported, remote, uploads, now, apiKey, source, interval, started,
                 openAIBatches, known,
                 compileVars, schemaVars, mergeVars, csvVars, swVars>>

\* checkBatchStatus up to the response: no credential, a fetch that throws,
\* or a response that is not ok ends the call with success: false.
CheckFails(p) ==
  /\ procs[p].pc = "check"
  /\ \/ ~apiKey
     \/ apiKey /\ \E failure \in {"throws", "notOk"} : TRUE
  /\ procs' = [procs EXCEPT ![p] = AfterFailure(@)]
  /\ UNCHANGED <<deleted, reported, store, remote, uploads, now, apiKey, source, interval, started,
                 openAIBatches, known,
                 compileVars, schemaVars, mergeVars, csvVars, swVars>>

\* checkBatchStatus: the response is ok and carries the job's remote status.
CheckFetch(p) ==
  /\ procs[p].pc = "check"
  /\ apiKey
  /\ remote[procs[p].batchId].exists
  /\ procs' = [procs EXCEPT ![p] =
                 [@ EXCEPT !.pc = "updateRead",
                           !.body = statusBody(remote[procs[p].batchId],
                                               procs[p].batchId)]]
  /\ reported' = [reported EXCEPT ![procs[p].batchId] =
                     @ \cup {remote[procs[p].batchId].status}]
  /\ UNCHANGED <<deleted, store, remote, uploads, now, apiKey, source, interval, started,
                 openAIBatches, known,
                 compileVars, schemaVars, mergeVars, csvVars, swVars>>

\* updateBatchStatus: await getAllBatches(), find the batch (throw when it is
\* gone: checkBatchStatus catches), change it in memory.
UpdateRead(p) ==
  /\ procs[p].pc = "updateRead"
  /\ LET pr == procs[p]
         batches == getAllBatches(store)
     IN procs' = [procs EXCEPT ![p] =
          IF findIndex(batches, pr.batchId) = 0
          THEN AfterFailure(pr)
          ELSE [pr EXCEPT
                  !.pc = "updateWrite",
                  !.body = NoBody,
                  !.batches =
                     updateBatchLocal(batches, pr.batchId, pr.body.status, now,
                       [requestCounts |-> pr.body.request_counts,
                        outputFileId |-> pr.body.output_file_id,
                        errorFileId |-> pr.body.error_file_id])]]
  /\ UNCHANGED <<deleted, reported, store, remote, uploads, now, apiKey, source, interval, started,
                 openAIBatches, known,
                 compileVars, schemaVars, mergeVars, csvVars, swVars>>

\* updateBatchStatus: store.put(batches, BATCHES_KEY).
UpdateWrite(p) ==
  /\ procs[p].pc = "updateWrite"
  /\ store' = procs[p].batches
  /\ procs' = [procs EXCEPT ![p] = AfterCheck(@)]
  /\ UNCHANGED <<deleted, reported, remote, uploads, now, apiKey, source, interval, started,
                 openAIBatches, known,
                 compileVars, schemaVars, mergeVars, csvVars, swVars>>

\* createBatch refuses: no credential, no archive, no table, no rows.
SubmitRefused(p, limit) ==
  /\ started < MaxChains
  /\ started' = started + 1
  /\ Idle(p)
  /\ LET error == IF ~apiKey THEN "API key not found"
                  ELSE IF source = "noZip" THEN "ZIP file not found"
                  ELSE IF source = "noCsv" THEN "Connections.csv not found"
                  ELSE "No connections found"
     IN /\ ~apiKey \/ Sliced(Rows(source), limit) = 0
        /\ procs' = [procs EXCEPT ![p] = [IdleProc EXCEPT !.result = error]]
  /\ UNCHANGED <<deleted, reported, store, remote, uploads, now, apiKey, source, interval,
                 openAIBatches, known,
                 compileVars, schemaVars, mergeVars, csvVars, swVars>>

\* A createBatch that starts the upload without looking at its prerequisites.
SubmitStart_Unchecked(p, limit) ==
  /\ started < MaxChains
  /\ started' = started + 1
  /\ Idle(p)
  /\ uploads # RemoteFileIds
  /\ \E id \in RemoteJobIds : ~remote[id].exists
  /\ procs' = [procs EXCEPT ![p] =
                 [IdleProc EXCEPT !.kind = "submit", !.pc = "upload",
                                  !.count = Sliced(TableRows, limit)]]
  /\ UNCHANGED <<deleted, reported, store, remote, uploads, now, apiKey, source,
                 interval, openAIBatches, known,
                 compileVars, schemaVars, mergeVars, csvVars, swVars>>

\* createBatch, steps 1 to 5: the prerequisites hold and the requests are
\* compiled; the upload is under way.
SubmitStart(p, limit) ==
  /\ started < MaxChains
  /\ started' = started + 1
  /\ Idle(p)
  /\ apiKey
  /\ Sliced(Rows(source), limit) > 0
  /\ uploads # RemoteFileIds
  /\ \E id \in RemoteJobIds : ~remote[id].exists
  /\ procs' = [procs EXCEPT ![p] =
                 [IdleProc EXCEPT !.kind = "submit", !.pc = "upload",
                                  !.count = Sliced(Rows(source), limit)]]
  /\ UNCHANGED <<deleted, reported, store, remote, uploads, now, apiKey, source, interval,
                 openAIBatches, known,
                 compileVars, schemaVars, mergeVars, csvVars, swVars>>

\* A createBatch that goes on to POST /batches after a failed upload.
UploadFails_GoesOn(p) ==
  /\ procs[p].pc = "upload"
  /\ procs' = [procs EXCEPT ![p] = [@ EXCEPT !.pc = "open"]]
  /\ UNCHANGED <<deleted, reported, store, remote, uploads, now, apiKey, source,
                 interval, started, openAIBatches, known,
                 compileVars, schemaVars, mergeVars, csvVars, swVars>>

\* POST /files throws or is not ok.
UploadFails(p) ==
  /\ procs[p].pc = "upload"
  /\ \E failure \in {"throws", "notOk"} :
       procs' = [procs EXCEPT ![p] =
                   [IdleProc EXCEPT !.result = "File upload failed"]]
  /\ UNCHANGED <<deleted, reported, store, remote, uploads, now, apiKey, source, interval, started,
                 openAIBatches, known,
                 compileVars, schemaVars, mergeVars, csvVars, swVars>>

\* POST /files is ok: the remote holds the artifact.
Upload(p) ==
  /\ procs[p].pc = "upload"
  /\ uploads' = uploads \cup {FreshFileId}
  /\ procs' = [procs EXCEPT ![p] =
                 [@ EXCEPT !.pc = "open", !.fileId = FreshFileId]]
  /\ UNCHANGED <<deleted, reported, store, remote, now, apiKey, source, interval, started,
                 openAIBatches, known,
                 compileVars, schemaVars, mergeVars, csvVars, swVars>>

\* POST /batches throws or is not ok.
OpenFails(p) ==
  /\ procs[p].pc = "open"
  /\ \E failure \in {"throws", "notOk"} :
       procs' = [procs EXCEPT ![p] =
                   [IdleProc EXCEPT !.result = "Batch creation failed"]]
  /\ UNCHANGED <<deleted, reported, store, remote, uploads, now, apiKey, source, interval, started,
                 openAIBatches, known,
                 compileVars, schemaVars, mergeVars, csvVars, swVars>>

\* POST /batches is ok: the remote opens the job; the record to store is
\* built with createdAt: Date.now() and the status of the response.  The
\* clock has moved on since the record before was built.
Open(p) ==
  /\ procs[p].pc = "open"
  /\ remote' = [remote EXCEPT ![FreshJobId] =
                  [exists |-> TRUE, status |-> "validating",
                   total |-> procs[p].count]]
  /\ now' = now + 1
  /\ reported' = [reported EXCEPT ![FreshJobId] = @ \cup {"validating"}]
  /\ known' = known \cup {FreshJobId}
  /\ procs' = [procs EXCEPT ![p] =
                 [@ EXCEPT !.pc = "addRead", !.batchId = FreshJobId,
                           !.body = statusBody(remote'[FreshJobId], FreshJobId),
                           !.created = now']]
  /\ UNCHANGED <<deleted, store, uploads, apiKey, source, interval, started,
                 openAIBatches,
                 compileVars, schemaVars, mergeVars, csvVars, swVars>>

\* addBatch: await getAllBatches(), replace or push, sort.
AddRead(p) ==
  /\ procs[p].pc = "addRead"
  /\ LET pr == procs[p]
         storedBatch == StoredBatch(pr.batchId, pr.created, pr.body.status,
                                    pr.fileId, pr.count)
     IN procs' = [procs EXCEPT ![p] =
                    [IdleProc EXCEPT
                       !.kind = pr.kind, !.pc = "addWrite",
                       !.batchId = pr.batchId,
                       !.batches = addBatchLocal(getAllBatches(store),
                                                 storedBatch)]]
  /\ UNCHANGED <<deleted, reported, store, remote, uploads, now, apiKey, source, interval, started,
                 openAIBatches, known,
                 compileVars, schemaVars, mergeVars, csvVars, swVars>>

\* addBatch: store.put(batches, BATCHES_KEY); createBatch returns success.
AddWrite(p) ==
  /\ procs[p].pc = "addWrite"
  /\ store' = procs[p].batches
  /\ known' = IF procs[p].kind = "import" THEN known \cup {procs[p].batchId} ELSE known
  /\ procs' = [procs EXCEPT ![p] = [IdleProc EXCEPT !.result = "ok"]]
  /\ UNCHANGED <<deleted, reported, remote, uploads, now, apiKey, source, interval, started,
                 openAIBatches,
                 compileVars, schemaVars, mergeVars, csvVars, swVars>>

\* handleDeleteBatch(batchId) from a listed job's button, confirmed.
DeleteStart(p, id) ==
  /\ started < MaxChains
  /\ started' = started + 1
  /\ deleted' = deleted \cup {id}
  /\ Idle(p)
  /\ id \in BatchIdsOf(store)
  /\ procs' = [procs EXCEPT ![p] =
                 [IdleProc EXCEPT !.kind = "delete", !.pc = "deleteRead",
                                  !.batchId = id]]
  /\ UNCHANGED <<reported, store, remote, uploads, now, apiKey, source, interval,
                 openAIBatches, known,
                 compileVars, schemaVars, mergeVars, csvVars, swVars>>

\* deleteBatch: await getAllBatches(), filter.
DeleteRead(p) ==
  /\ procs[p].pc = "deleteRead"
  /\ procs' = [procs EXCEPT ![p] =
                 [@ EXCEPT !.pc = "deleteWrite",
                           !.batches = deleteBatchLocal(getAllBatches(store),
                                                        procs[p].batchId)]]
  /\ UNCHANGED <<deleted, reported, store, remote, uploads, now, apiKey, source, interval, started,
                 openAIBatches, known,
                 compileVars, schemaVars, mergeVars, csvVars, swVars>>

\* deleteBatch: the key is deleted when nothing is left, else put.
DeleteWrite(p) ==
  /\ procs[p].pc = "deleteWrite"
  /\ store' = procs[p].batches
  /\ procs' = [procs EXCEPT ![p] = IdleProc]
  /\ UNCHANGED <<deleted, reported, remote, uploads, now, apiKey, source, interval, started,
                 openAIBatches, known,
                 compileVars, schemaVars, mergeVars, csvVars, swVars>>

Limits == {0, 1}

Next ==
  \/ DeleteApiKey
  \/ Mount
  \/ Unmount
  \/ IntervalFire
  \/ \E id \in RemoteJobIds : RemoteAdvance(id)
  \/ \E p \in TickProcs : TickList(p)
  \/ \E p \in Procs :
       \/ CheckFails(p)
       \/ CheckFetch(p)
       \/ UpdateRead(p)
       \/ UpdateWrite(p)
  \/ \E p \in UserProcs :
       \/ \E limit \in Limits : SubmitRefused(p, limit)
       \/ \E limit \in Limits : SubmitStart(p, limit)
       \/ UploadFails(p)
       \/ Upload(p)
       \/ OpenFails(p)
       \/ Open(p)
       \/ AddRead(p)
       \/ AddWrite(p)
       \/ \E id \in RemoteJobIds : RefreshStart(p, id)
       \/ \E id \in RemoteJobIds : DeleteStart(p, id)
       \/ DeleteRead(p)
       \/ DeleteWrite(p)

Spec == Init /\ [][Next]_vars

\* One step of the pollPendingBatches execution in slot p.
TickStep(p) ==
  \/ TickList(p)
  \/ CheckFails(p)
  \/ CheckFetch(p)
  \/ UpdateRead(p)
  \/ UpdateWrite(p)

\* The awaited promises of an execution in flight settle (a fetch resolves or
\* rejects, a transaction completes), so the execution takes its next step.
SpecLive == Spec /\ \A p \in TickProcs : WF_vars(TickStep(p))

(***************************************************************************)
(* The reattach path: the page lists the remote service's jobs on demand   *)
(* and imports the one the user selects.  SpecImport starts with a job     *)
(* that another session opened, so the remote service knows a job the      *)
(* ledger does not.                                                        *)
(***************************************************************************)
\* The job another session opened.
ForeignJobId == "batch_2"

ForeignJob == [exists |-> TRUE, status |-> "in_progress", total |-> 1]

InitImport ==
  /\ store = <<>>
  /\ remote = [id \in RemoteJobIds |-> IF id = ForeignJobId THEN ForeignJob ELSE NoJob]
  /\ uploads = {}
  /\ now = 1
  /\ apiKey = TRUE
  /\ source = "table"
  /\ interval = FALSE
  /\ started = 0
  /\ deleted = {}
  /\ reported = [id \in RemoteJobIds |-> {}]
  /\ openAIBatches = {}
  /\ known = {}
  /\ procs = [p \in Procs |-> IdleProc]
  /\ IdleCompile
  /\ IdleSchema
  /\ IdleMerge
  /\ IdleCsv
  /\ IdleSw

\* A handleLoadOpenAIBatches that adds the jobs it finds to the ledger.
LoadOpenAIBatches_AutoImports(p) ==
  /\ started < MaxChains
  /\ started' = started + 1
  /\ Idle(p)
  /\ apiKey
  /\ openAIBatches' = {id \in RemoteJobIds : remote[id].exists}
  /\ store' = IF ForeignJobId \in BatchIdsOf(store) \/ ~remote[ForeignJobId].exists
              THEN store
              ELSE addBatchLocal(store, StoredBatch(ForeignJobId, 0,
                                                    remote[ForeignJobId].status, "",
                                                    remote[ForeignJobId].total))
  /\ procs' = [procs EXCEPT ![p] = [IdleProc EXCEPT !.result = "loaded"]]
  /\ UNCHANGED <<deleted, reported, remote, uploads, now, apiKey, source, interval,
                 known, compileVars, schemaVars, mergeVars, csvVars, swVars>>

\* handleLoadOpenAIBatches: the remote service's jobs are listed, the ledger
\* is read to mark the ones it holds, and the list is shown.
LoadOpenAIBatches(p) ==
  /\ started < MaxChains
  /\ started' = started + 1
  /\ Idle(p)
  /\ apiKey
  /\ openAIBatches' = {id \in RemoteJobIds : remote[id].exists}
  /\ procs' = [procs EXCEPT ![p] = [IdleProc EXCEPT !.result = "loaded"]]
  /\ UNCHANGED <<deleted, reported, store, remote, uploads, now, apiKey, source, interval,
                 known, compileVars, schemaVars, mergeVars, csvVars, swVars>>

\* handleImportBatch with a job of the list selected.
ImportStart(p, id) ==
  /\ started < MaxChains
  /\ started' = started + 1
  /\ Idle(p)
  /\ id \in openAIBatches
  /\ procs' = [procs EXCEPT ![p] =
                 [IdleProc EXCEPT !.kind = "import", !.pc = "importFetch",
                                  !.batchId = id]]
  /\ UNCHANGED <<deleted, reported, store, remote, uploads, now, apiKey, source, interval,
                 openAIBatches, known,
                 compileVars, schemaVars, mergeVars, csvVars, swVars>>

\* importBatch: the job cannot be fetched; handleImportBatch shows the error.
ImportFails(p) ==
  /\ procs[p].pc = "importFetch"
  /\ procs' = [procs EXCEPT ![p] = [IdleProc EXCEPT !.result = "Failed to import batch"]]
  /\ UNCHANGED <<deleted, reported, store, remote, uploads, now, apiKey, source, interval, started,
                 openAIBatches, known,
                 compileVars, schemaVars, mergeVars, csvVars, swVars>>

\* importBatch: the job is fetched from the remote service and its record is
\* handed to addBatch (createdAt is the remote's creation time, taken as
\* earlier than this session).
ImportFetch(p) ==
  /\ procs[p].pc = "importFetch"
  /\ apiKey
  /\ remote[procs[p].batchId].exists
  /\ reported' = [reported EXCEPT ![procs[p].batchId] =
                    @ \cup {remote[procs[p].batchId].status}]
  /\ procs' = [procs EXCEPT ![p] =
                 [@ EXCEPT !.pc = "addRead",
                           !.body = statusBody(remote[procs[p].batchId],
                                               procs[p].batchId),
                           !.count = remote[procs[p].batchId].total,
                           !.created = 0]]
  /\ UNCHANGED <<deleted, store, remote, uploads, now, apiKey, source, interval, started,
                 openAIBatches, known,
                 compileVars, schemaVars, mergeVars, csvVars, swVars>>

NextImport ==
  \/ Next
  \/ \E p \in ImportProcs :
       \/ LoadOpenAIBatches(p)
       \/ \E id \in RemoteJobIds : ImportStart(p, id)
       \/ ImportFails(p)
       \/ ImportFetch(p)
       \/ AddRead(p)
       \/ AddWrite(p)

SpecImport == InitImport /\ [][NextImport]_vars

(***************************************************************************)
(* createBatch from the parsed table to the ledger record.  SpecCreate     *)
(* runs one call on a table of at most MaxRows rows, with the credential   *)
(* and the archive at hand: the rows are limited, compiled and uploaded,   *)
(* and the job the remote service opens is recorded.  A limit of 0 stands  *)
(* for a call without limit (undefined), which the code's test             *)
(* `limit && limit > 0` treats like 0.                                     *)
(***************************************************************************)
InitCreate ==
  /\ connections \in SeqsUpTo(RowPool, MaxRows)
  /\ compiler = "none"
  /\ jsonl = <<>>
  /\ store = <<>>
  /\ remote = [id \in RemoteJobIds |-> NoJob]
  /\ uploads = {}
  /\ now = 1
  /\ apiKey = TRUE
  /\ source = "table"
  /\ interval = FALSE
  /\ started = 0
  /\ deleted = {}
  /\ reported = [id \in RemoteJobIds |-> {}]
  /\ openAIBatches = {}
  /\ known = {}
  /\ procs = [p \in Procs |-> IdleProc]
  /\ IdleSchema
  /\ IdleMerge
  /\ IdleCsv
  /\ IdleSw

\* The limits a call is given: none (0), or 1 .. MaxRows + 1.
CreateLimits == 0..(MaxRows + 1)

\* A limit that keeps the last rows of the table.
applyLimit_LastRows(conns, limit) ==
  IF limit # 0 /\ limit > 0
  THEN SubSeq(conns, Len(conns) - Min(limit, Len(conns)) + 1, Len(conns))
  ELSE conns

\* if (limit && limit > 0) connections = connections.slice(0, limit).
applyLimit(conns, limit) ==
  IF limit # 0 /\ limit > 0
  THEN SubSeq(conns, 1, Min(limit, Len(conns)))
  ELSE conns

\* createBatch(limit) on the parsed table, steps 4 to 8: no rows left ends the
\* call before anything is compiled; a refused upload or a refused POST
\* /batches ends it before anything is recorded.
CreateBatchFromTable(limit) ==
  /\ compiler = "none"
  /\ LET limited == applyLimit(connections, limit)
     IN IF Len(limited) = 0
        THEN /\ compiler' = "refused"
             /\ UNCHANGED <<jsonl, store, remote, uploads, now, reported, known>>
        ELSE /\ jsonl' = generateBatchJSONL(limited)
             /\ \/ /\ compiler' = "failed"
                   /\ UNCHANGED <<store, remote, uploads, now, reported, known>>
                \/ /\ compiler' = "app"
                   /\ uploads' = uploads \cup {FreshFileId}
                   /\ remote' = [remote EXCEPT ![FreshJobId] =
                                   [exists |-> TRUE, status |-> "validating",
                                    total |-> Len(limited)]]
                   /\ now' = now + 1
                   /\ reported' = [reported EXCEPT ![FreshJobId] =
                                      @ \cup {"validating"}]
                   /\ known' = known \cup {FreshJobId}
                   /\ store' = addBatchLocal(
                                 getAllBatches(store),
                                 StoredBatch(FreshJobId, now', "validating",
                                             FreshFileId, Len(limited)))
  /\ UNCHANGED <<connections, apiKey, source, interval, started, deleted,
                 openAIBatches, procs, schemaVars, mergeVars, csvVars, swVars>>

NextCreate == \E limit \in CreateLimits : CreateBatchFromTable(limit)

SpecCreate == InitCreate /\ [][NextCreate]_vars

(***************************************************************************)
(* The scheduler at work for as long as the page stays open.  SpecPoll     *)
(* starts after two submissions and the mount of the process page: the     *)
(* ledger holds two jobs the remote service is validating, the interval is *)
(* set and the first poll is about to read the ledger.  The interval fires *)
(* again and again; no user action is taken.                               *)
(***************************************************************************)
InitPoll ==
  /\ store = <<StoredBatch("batch_2", 3, "validating", "file_2", TableRows),
               StoredBatch("batch_1", 2, "validating", "file_1", TableRows)>>
  /\ remote = [id \in RemoteJobIds |->
                [exists |-> TRUE, status |-> "validating", total |-> TableRows]]
  /\ uploads = RemoteFileIds
  /\ now = 3
  /\ apiKey = TRUE
  /\ source = "table"
  /\ interval = TRUE
  /\ started = 0
  /\ deleted = {}
  /\ reported = [id \in RemoteJobIds |-> {"validating"}]
  /\ openAIBatches = {}
  /\ known = RemoteJobIds
  /\ procs = [p \in Procs |->
               IF p = "tick1"
               THEN [IdleProc EXCEPT !.kind = "tick", !.pc = "list"]
               ELSE IdleProc]
  /\ IdleCompile
  /\ IdleSchema
  /\ IdleMerge
  /\ IdleCsv
  /\ IdleSw

\* setInterval(() => { void pollPendingBatches(); }, 60000): the interval
\* fires and starts an execution, whatever executions are in flight.
PollTimer ==
  /\ interval
  /\ \E p \in TickProcs : Idle(p)
  /\ procs' = [procs EXCEPT ![FreeTick] =
                 [IdleProc EXCEPT !.kind = "tick", !.pc = "list"]]
  /\ UNCHANGED <<deleted, reported, store, remote, uploads, now, apiKey, source, interval, started,
                 openAIBatches, known,
                 compileVars, schemaVars, mergeVars, csvVars, swVars>>

NextPoll ==
  \/ PollTimer
  \/ \E id \in RemoteJobIds : RemoteAdvance(id)
  \/ \E p \in TickProcs :
       \/ TickList(p)
       \/ CheckFails(p)
       \/ CheckFetch(p)
       \/ UpdateRead(p)
       \/ UpdateWrite(p)

\* The timer goes on firing and every execution in flight goes on running.
SpecPoll ==
  /\ InitPoll
  /\ [][NextPoll]_vars
  /\ WF_vars(PollTimer)
  /\ \A p \in TickProcs : WF_vars(TickStep(p))

(***************************************************************************)
(* The contact table: parseConnectionsCSV (batch-processor) and            *)
(* exportToCSV (batch-results.ts).                                         *)
(*                                                                         *)
(* A text is a sequence of lines (the text split at "\n"), a line is a     *)
(* sequence of characters, and a field's value is a sequence of characters *)
(* too.  A column name stands in the sequence as one element, since no     *)
(* step looks inside one but toCamelCase.  A row record is the sequence of *)
(* its [key, value] members in insertion order, as Object.keys lists them. *)
(***************************************************************************)
Comma == ","
Quote == "\""
Space == " "

\* String.prototype.trim on a sequence of characters.
RECURSIVE trimStart(_)
trimStart(chars) ==
  IF chars # <<>> /\ Head(chars) = Space THEN trimStart(Tail(chars)) ELSE chars

RECURSIVE trimEnd(_)
trimEnd(chars) ==
  IF chars # <<>> /\ chars[Len(chars)] = Space
  THEN trimEnd(SubSeq(chars, 1, Len(chars) - 1))
  ELSE chars

trim(chars) == trimEnd(trimStart(chars))

\* The loop of parseCSVLine from index i on.
RECURSIVE scanCSVLine(_, _, _, _, _)
scanCSVLine(line, i, current, inQuotes, result) ==
  IF i > Len(line) THEN Append(result, trim(current))
  ELSE LET char == line[i]
           nextChar == IF i < Len(line) THEN line[i + 1] ELSE ""
       IN IF char = Quote
          THEN IF inQuotes /\ nextChar = Quote
               THEN scanCSVLine(line, i + 2, Append(current, Quote), inQuotes, result)
               ELSE scanCSVLine(line, i + 1, current, ~inQuotes, result)
          ELSE IF char = Comma /\ ~inQuotes
          THEN scanCSVLine(line, i + 1, <<>>, inQuotes, Append(result, trim(current)))
          ELSE scanCSVLine(line, i + 1, Append(current, char), inQuotes, result)

parseCSVLine(line) == scanCSVLine(line, 1, <<>>, FALSE, <<>>)

\* toCamelCase on the column names of the contact table and of the export.
CamelCase ==
  [h \in {"First Name", "Last Name", "URL", "Email Address", "Company",
          "Position", "Connected On", "Email", "City", "Country", "Latitude",
          "Longitude", "Connections", "Followers", "Enriched", "Error"} |->
     CASE h = "First Name" -> "firstName"
       [] h = "Last Name" -> "lastName"
       [] h = "URL" -> "url"
       [] h = "Email Address" -> "emailAddress"
       [] h = "Company" -> "company"
       [] h = "Position" -> "position"
       [] h = "Connected On" -> "connectedOn"
       [] h = "Email" -> "email"
       [] h = "City" -> "city"
       [] h = "Country" -> "country"
       [] h = "Latitude" -> "latitude"
       [] h = "Longitude" -> "longitude"
       [] h = "Connections" -> "connections"
       [] h = "Followers" -> "followers"
       [] h = "Enriched" -> "enriched"
       [] OTHER -> "error"]

toCamelCase(header) == CamelCase[header[1]]

\* connection[key] = value on a record: an existing member keeps its place.
SetMember(record, key, value) ==
  IF \E n \in 1..Len(record) : record[n].key = key
  THEN [n \in 1..Len(record) |->
          IF record[n].key = key THEN [key |-> key, value |-> value] ELSE record[n]]
  ELSE Append(record, [key |-> key, value |-> value])

\* headers.forEach((header, index) => connection[toCamelCase(header)] = ...).
RECURSIVE connectionFrom(_, _, _, _)
connectionFrom(headers, values, index, connection) ==
  IF index > Len(headers) THEN connection
  ELSE connectionFrom(headers, values, index + 1,
                      SetMember(connection, toCamelCase(headers[index]), values[index]))

\* The index of the first line that includes "First Name", the first line
\* when there is none.
headerIndexOf(lines) ==
  IF \E i \in 1..Len(lines) : \E j \in 1..Len(lines[i]) : lines[i][j] = "First Name"
  THEN CHOOSE i \in 1..Len(lines) :
         /\ \E j \in 1..Len(lines[i]) : lines[i][j] = "First Name"
         /\ \A k \in 1..(i - 1) : \A j \in 1..Len(lines[k]) : lines[k][j] # "First Name"
  ELSE 1

\* The loop over the data rows from line i on.
RECURSIVE dataRows(_, _, _)
dataRows(lines, headers, i) ==
  IF i > Len(lines) THEN <<>>
  ELSE LET line == lines[i]
           values == parseCSVLine(trim(line))
       IN IF trim(line) = <<>> THEN dataRows(lines, headers, i + 1)
          ELSE IF Len(values) = Len(headers)
          THEN <<connectionFrom(headers, values, 1, <<>>)>>
                 \o dataRows(lines, headers, i + 1)
          ELSE dataRows(lines, headers, i + 1)

parseConnectionsCSV(lines) ==
  IF lines = <<>> \/ lines[headerIndexOf(lines)] = <<>> THEN <<>>
  ELSE dataRows(lines, parseCSVLine(lines[headerIndexOf(lines)]),
                headerIndexOf(lines) + 1)

\* conn.key || "": the member's value, "" when the record has no such member.
Member(conn, key) ==
  IF \E n \in 1..Len(conn) : conn[n].key = key
  THEN conn[CHOOSE n \in 1..Len(conn) : conn[n].key = key].value
  ELSE <<>>

\* The header row of the export, as it is written.
ExportHeaders ==
  <<"First Name", "Last Name", "Company", "Position", "Email", "URL",
    "Connected On", "City", "Country", "Latitude", "Longitude", "Connections",
    "Followers", "Enriched", "Error">>

\* The cells of one exported row.  A parsed row has strings for members, so
\* conn.location?.city and the like are undefined and written as "".
exportRow(conn) ==
  <<Member(conn, "firstName"), Member(conn, "lastName"), Member(conn, "company"),
    Member(conn, "position"), Member(conn, "emailAddress"), Member(conn, "url"),
    Member(conn, "connectedOn"), <<>>, <<>>, <<>>, <<>>, <<>>, <<>>,
    IF Member(conn, "enriched") # <<>> THEN <<"Yes">> ELSE <<"No">>,
    Member(conn, "error")>>

\* field.replace(/"/g, '""').
RECURSIVE doubleQuotes(_)
doubleQuotes(field) ==
  IF field = <<>> THEN <<>>
  ELSE (IF Head(field) = Quote THEN <<Quote, Quote>> ELSE <<Head(field)>>)
         \o doubleQuotes(Tail(field))

escapeField(field) ==
  IF \E n \in 1..Len(field) : field[n] \in {Comma, Quote}
  THEN <<Quote>> \o doubleQuotes(field) \o <<Quote>>
  ELSE field

\* row.map(escapeField).join(",").
RECURSIVE joinCells(_)
joinCells(cells) ==
  IF cells = <<>> THEN <<>>
  ELSE IF Len(cells) = 1 THEN escapeField(cells[1])
  ELSE escapeField(cells[1]) \o <<Comma>> \o joinCells(Tail(cells))

\* exportToCSV: the lines that csvLines.join("\n") joins.
exportToCSV(conns) ==
  <<joinCells([n \in 1..Len(ExportHeaders) |-> <<ExportHeaders[n]>>])>>
    \o [n \in 1..Len(conns) |-> joinCells(exportRow(conns[n]))]

(***************************************************************************)
(* SpecCsv: a contact table is parsed, the rows are exported, and the      *)
(* exported text is parsed again.  The tables have the header of the       *)
(* contact export, in full or cut to its first three columns, after an     *)
(* optional line of notes, and up to MaxCsvLines data lines.               *)
(***************************************************************************)
CsvHeaders ==
  {<<"First Name", "Last Name", "URL">>,
   <<"First Name", "Last Name", "URL", "Email Address", "Company", "Position",
     "Connected On">>}

\* The raw text of a cell: plain, empty, padded, quoted with a comma and a
\* doubled quote inside.
CsvCells ==
  {<<"A">>, <<>>, <<Space, "B">>, <<Quote, "C", Comma, Quote, Quote, "D", Quote>>}

RECURSIVE joinRaw(_)
joinRaw(cells) ==
  IF cells = <<>> THEN <<>>
  ELSE IF Len(cells) = 1 THEN cells[1]
  ELSE cells[1] \o <<Comma>> \o joinRaw(Tail(cells))

\* The data lines under a header: three cells drawn from CsvCells, the
\* remaining columns plain; and a line one cell short.
CsvLines(header) ==
  {joinRaw([n \in 1..Len(header) |-> IF n <= 3 THEN c[n] ELSE <<"E">>]) :
     c \in [1..3 -> CsvCells]}
    \cup {joinRaw([n \in 1..(Len(header) - 1) |-> <<"A">>])}

CsvTexts ==
  UNION {{notes \o <<joinRaw([n \in 1..Len(h) |-> <<h[n]>>])>> \o body :
            notes \in {<<>>, <<<<"Notes:">>>>},
            body \in UNION {[1..k -> CsvLines(h)] : k \in 0..MaxCsvLines}} :
         h \in CsvHeaders}

InitCsv ==
  /\ csvText \in CsvTexts
  /\ csvStage = "text"
  /\ csvRows = <<>>
  /\ csvExport = <<>>
  /\ csvAgain = <<>>
  /\ IdleCompile
  /\ IdleSchema
  /\ IdleMerge
  /\ IdleLedger
  /\ IdleSw

ParseCsv ==
  /\ csvStage = "text"
  /\ csvRows' = parseConnectionsCSV(csvText)
  /\ csvStage' = "parsed"
  /\ UNCHANGED <<csvText, csvExport, csvAgain, compileVars, schemaVars, mergeVars,
                 ledgerVars, swVars>>

ExportCsv ==
  /\ csvStage = "parsed"
  /\ csvExport' = exportToCSV(csvRows)
  /\ csvStage' = "exported"
  /\ UNCHANGED <<csvText, csvRows, csvAgain, compileVars, schemaVars, mergeVars,
                 ledgerVars, swVars>>

ParseExported ==
  /\ csvStage = "exported"
  /\ csvAgain' = parseConnectionsCSV(csvExport)
  /\ csvStage' = "reparsed"
  /\ UNCHANGED <<csvText, csvRows, csvExport, compileVars, schemaVars, mergeVars,
                 ledgerVars, swVars>>

NextCsv == ParseCsv \/ ExportCsv \/ ParseExported

SpecCsv == InitCsv /\ [][NextCsv]_vars

(***************************************************************************)
(* The service worker's caches (public/sw.js).  A cache is the sequence of *)
(* its entries in insertion order, which is the order cache.keys() lists   *)
(* them in; an entry is [url, date], date being the day in the entry's     *)
(* sw-cached-date header (0 where the header is missing).  Time is counted *)
(* in days.  The limits of the two caches are scaled down: MaxMapboxItems  *)
(* stands for MAX_MAPBOX_ITEMS = 500 and MaxImageItems for                 *)
(* MAX_IMAGE_ITEMS = 100.                                                  *)
(*                                                                         *)
(* A handler is suspended at pc:                                           *)
(*   "match"        await caches.open; await cache.match(request)          *)
(*   "expire"       await cache.delete(request)                            *)
(*   "fetch"        await fetch(request)                                   *)
(*   "limitKeys"    limitCacheSize: await caches.open; await cache.keys()  *)
(*   "limitDelete"  limitCacheSize: await cache.delete(keys[i])            *)
(* cache.put(request, response) is called without await (sw.js:154, 190):  *)
(* the handler goes on at once and the put is carried out at any later     *)
(* moment, before or after the handler's cache.keys().                     *)
(***************************************************************************)
MAX_AGE_DAYS == 7

CacheNames == {"mapbox", "image"}
SwUrls == [mapbox |-> {"tile_1", "tile_2", "tile_3"}, image |-> {"img_1", "img_2"}]
SwHandlers == {"h1", "h2"}

\* MAX_MAPBOX_ITEMS and MAX_IMAGE_ITEMS, scaled down.
maxItems(cacheName) ==
  IF cacheName = "mapbox" THEN MaxMapboxItems ELSE MaxImageItems

Entry(url, date) == [url |-> url, date |-> date]
NoEntry == Entry("", 0)

\* A response handed to the page: from the cache (with the entry's date), from
\* the network (with its status), or the handler's own 503.
SwResponse(from, status, date) == [from |-> from, status |-> status, date |-> date]
NoResponseYet == SwResponse("none", 0, 0)

IdleHandler ==
  [pc |-> "idle", cache |-> "", url |-> "", cached |-> NoEntry, keys |-> <<>>,
   response |-> NoResponseYet]

\* cache.match(request): the entry stored for the url, NoEntry for undefined.
cacheMatch(entries, url) ==
  IF \E n \in 1..Len(entries) : entries[n].url = url
  THEN entries[CHOOSE n \in 1..Len(entries) : entries[n].url = url]
  ELSE NoEntry

\* cache.delete(request).
cacheDelete(entries, url) == SelectSeq(entries, LAMBDA e : e.url # url)

\* cache.put(request, response): an entry stored for the url is replaced, and
\* the new entry is the last one.
cachePut(entries, entry) == Append(cacheDelete(entries, entry.url), entry)

\* cache.keys().
cacheKeys(entries) == [n \in 1..Len(entries) |-> entries[n].url]

\* An expiry test that still serves an entry of exactly MAX_AGE_DAYS days.
isFresh_Inclusive(cachedDate, today) == today - cachedDate <= MAX_AGE_DAYS

\* ageInDays < MAX_AGE_DAYS (sw.js:120-126).
isFresh(cachedDate, today) == today - cachedDate < MAX_AGE_DAYS

InitCache ==
  /\ swCache = [c \in CacheNames |-> <<>>]
  /\ swClock = 0
  /\ swProcs = [h \in SwHandlers |-> IdleHandler]
  /\ swPuts = <<>>
  /\ swStarted = 0
  /\ IdleCompile
  /\ IdleSchema
  /\ IdleMerge
  /\ IdleLedger
  /\ IdleCsv

\* The handler returns the response to the page.
Returned(pr, response) == [IdleHandler EXCEPT !.response = response]

\* Time passes: all but the last day of the expiry period at a stroke from
\* day 0, then day by day.
DayPasses ==
  /\ swClock < MaxDay
  /\ swClock' = IF swClock = 0 THEN MAX_AGE_DAYS - 1 ELSE swClock + 1
  /\ UNCHANGED <<swCache, swProcs, swPuts, swStarted,
                 compileVars, schemaVars, mergeVars, ledgerVars, csvVars>>

\* The fetch listener: a GET for api.mapbox.com or for an image starts
\* handleMapboxRequest or handleImageRequest.
FetchEvent(h, cacheName, url) ==
  /\ swStarted < MaxRequests
  /\ swStarted' = swStarted + 1
  /\ swProcs[h].pc = "idle"
  /\ swProcs' = [swProcs EXCEPT ![h] =
                   [IdleHandler EXCEPT !.pc = "match", !.cache = cacheName,
                                       !.url = url]]
  /\ UNCHANGED <<swCache, swClock, swPuts,
                 compileVars, schemaVars, mergeVars, ledgerVars, csvVars>>

\* cache.match(request) returns.  handleMapboxRequest serves a fresh entry and
\* goes on to delete an expired one; handleImageRequest serves any entry.
Match(h) ==
  /\ swProcs[h].pc = "match"
  /\ LET pr == swProcs[h]
         cachedResponse == cacheMatch(swCache[pr.cache], pr.url)
     IN swProcs' = [swProcs EXCEPT ![h] =
          IF cachedResponse = NoEntry
          THEN [pr EXCEPT !.pc = "fetch"]
          ELSE IF pr.cache = "image" \/ isFresh(cachedResponse.date, swClock)
          THEN Returned(pr, SwResponse("cache", 200, cachedResponse.date))
          ELSE [pr EXCEPT !.pc = "expire", !.cached = cachedResponse]]
  /\ UNCHANGED <<swCache, swClock, swPuts, swStarted,
                 compileVars, schemaVars, mergeVars, ledgerVars, csvVars>>

\* handleMapboxRequest: await cache.delete(request) for the expired entry.
Expire(h) ==
  /\ swProcs[h].pc = "expire"
  /\ swCache' = [swCache EXCEPT ![swProcs[h].cache] =
                   cacheDelete(@, swProcs[h].url)]
  /\ swProcs' = [swProcs EXCEPT ![h] = [@ EXCEPT !.pc = "fetch"]]
  /\ UNCHANGED <<swClock, swPuts, swStarted,
                 compileVars, schemaVars, mergeVars, ledgerVars, csvVars>>

\* fetch(request) answers 200: cache.put is called and not awaited, and the
\* handler enters limitCacheSize.
NetworkOk(h) ==
  /\ swProcs[h].pc = "fetch"
  /\ swPuts' = Append(swPuts,
                      [cache |-> swProcs[h].cache,
                       entry |-> Entry(swProcs[h].url,
                                       IF swProcs[h].cache = "mapbox"
                                       THEN swClock ELSE 0)])
  /\ swProcs' = [swProcs EXCEPT ![h] =
                   [@ EXCEPT !.pc = "limitKeys",
                             !.response = SwResponse("network", 200, 0)]]
  /\ UNCHANGED <<swCache, swClock, swStarted,
                 compileVars, schemaVars, mergeVars, ledgerVars, csvVars>>

\* fetch(request) answers with another status: the response is returned and
\* nothing is cached.
NetworkNotOk(h) ==
  /\ swProcs[h].pc = "fetch"
  /\ swProcs' = [swProcs EXCEPT ![h] =
                   Returned(@, SwResponse("network", 404, 0))]
  /\ UNCHANGED <<swCache, swClock, swPuts, swStarted,
                 compileVars, schemaVars, mergeVars, ledgerVars, csvVars>>

\* fetch(request) throws.  handleMapboxRequest returns cachedResponse, the
\* expired entry it matched, or a 503 of its own when it matched none;
\* handleImageRequest returns the 503.
NetworkThrows(h) ==
  /\ swProcs[h].pc = "fetch"
  /\ swProcs' = [swProcs EXCEPT ![h] =
                   IF swProcs[h].cache = "mapbox" /\ swProcs[h].cached # NoEntry
                   THEN Returned(@, SwResponse("cache", 200, swProcs[h].cached.date))
                   ELSE Returned(@, SwResponse("error", 503, 0))]
  /\ UNCHANGED <<swCache, swClock, swPuts, swStarted,
                 compileVars, schemaVars, mergeVars, ledgerVars, csvVars>>

\* A cache.put issued earlier is carried out.
PutCommit(n) ==
  /\ n \in 1..Len(swPuts)
  /\ swCache' = [swCache EXCEPT ![swPuts[n].cache] = cachePut(@, swPuts[n].entry)]
  /\ swPuts' = SubSeq(swPuts, 1, n - 1) \o SubSeq(swPuts, n + 1, Len(swPuts))
  /\ UNCHANGED <<swClock, swProcs, swStarted,
                 compileVars, schemaVars, mergeVars, ledgerVars, csvVars>>

\* limitCacheSize: cache.keys() returns; with more than maxItems keys the
\* first keys.length - maxItems of them are to be deleted.
LimitKeys(h) ==
  /\ swProcs[h].pc = "limitKeys"
  /\ LET pr == swProcs[h]
         keys == cacheKeys(swCache[pr.cache])
         itemsToDelete == Len(keys) - maxItems(pr.cache)
     IN swProcs' = [swProcs EXCEPT ![h] =
          IF Len(keys) > maxItems(pr.cache)
          THEN [pr EXCEPT !.pc = "limitDelete",
                          !.keys = SubSeq(keys, 1, itemsToDelete)]
          ELSE Returned(pr, pr.response)]
  /\ UNCHANGED <<swCache, swClock, swPuts, swStarted,
                 compileVars, schemaVars, mergeVars, ledgerVars, csvVars>>

\* limitCacheSize: await cache.delete(keys[i]); after the last one the handler
\* returns the network's response.
LimitDelete(h) ==
  /\ swProcs[h].pc = "limitDelete"
  /\ LET pr == swProcs[h]
     IN /\ swCache' = [swCache EXCEPT ![pr.cache] = cacheDelete(@, Head(pr.keys))]
        /\ swProcs' = [swProcs EXCEPT ![h] =
             IF Len(pr.keys) > 1
             THEN [pr EXCEPT !.keys = Tail(pr.keys)]
             ELSE Returned(pr, pr.response)]
  /\ UNCHANGED <<swClock, swPuts, swStarted,
                 compileVars, schemaVars, mergeVars, ledgerVars, csvVars>>

NextCache ==
  \/ DayPasses
  \/ \E n \in 1..MaxRequests : PutCommit(n)
  \/ \E h \in SwHandlers :
       \/ \E c \in CacheNames : \E url \in SwUrls[c] : FetchEvent(h, c, url)
       \/ Match(h)
       \/ Expire(h)
       \/ NetworkOk(h)
       \/ NetworkNotOk(h)
       \/ NetworkThrows(h)
       \/ LimitKeys(h)
       \/ LimitDelete(h)

SpecCache == InitCache /\ [][NextCache]_vars

(***************************************************************************)
(* Claims about the request compiler.                                      *)
(***************************************************************************)
SchemaValid(sch) == validateStrictSchema(sch, "root").valid

\* C1: for N rows the app's compiler emits exactly N requests, and the request
\* at 0-based position i carries the correlation id "req-" + (i+1): the ids are
\* req-1..req-N, without gaps or duplicates.
C1_CorrelationIds ==
  compiler = "app" =>
    /\ Len(jsonl) = Len(connections)
    /\ \A n \in 1..Len(jsonl) : jsonl[n].custom_id = "req-" \o ToString(n)
    /\ \A m, n \in 1..Len(jsonl) :
         m # n => jsonl[m].custom_id # jsonl[n].custom_id

C1_Witness ==
  compiler = "app" /\ Len(connections) = 3 /\ jsonl[3].custom_id = "req-3"

RECURSIVE ObjectNodesAt(_, _)
ObjectNodesAt(sch, path) ==
  IF sch.type = "object"
  THEN {[path |-> path, node |-> sch]}
         \cup UNION {ObjectNodesAt(sch.props[k], path \o "." \o k) :
                     k \in DOMAIN sch.props}
  ELSE IF sch.type = "array" /\ sch.items # <<>>
  THEN ObjectNodesAt(sch.items[1], path \o "[items]")
  ELSE {}

\* An object node that lacks a required array, omits a property key from
\* required, or does not set additionalProperties to false.
Offending(node) ==
  \/ ~node.hasReq
  \/ \E k \in DOMAIN node.props : k \notin node.req
  \/ node.addl # "false"

OffendingPaths(sch) ==
  {n.path : n \in {m \in ObjectNodesAt(sch, "root") : Offending(m.node)}}

ReportedPaths == {validation.errors[n].path : n \in DOMAIN validation.errors}

\* C7: validateStrictSchema reports valid = false whenever some object node at
\* any depth offends, and its error list names the path of every offending node.
C7_EveryOffendingNodeReported ==
  validation.done =>
    /\ (OffendingPaths(schema) # {} => ~validation.valid)
    /\ OffendingPaths(schema) \subseteq ReportedPaths

\* C27: validateStrictSchema accepts a schema only if every object node's
\* required list is its property-key set exactly: a required entry that names
\* no property makes the schema invalid, as a property missing from required
\* does.
C27_RequiredEqualsKeys ==
  validation.done /\ validation.valid =>
    \A n \in ObjectNodesAt(schema, "root") :
      n.node.hasReq /\ n.node.req = DOMAIN n.node.props

(***************************************************************************)
(* Claims about the result merge.                                          *)
(***************************************************************************)
Decodes == \A n \in 1..Len(rawDoc) : rawDoc[n].kind # "malformed"

\* The result items of the raw document, in document order.
DocItems == [n \in 1..Len(NonBlank(rawDoc)) |-> NonBlank(rawDoc)[n].item]

\* The positions of the items that carry row n's correlation id (n is 1-based).
ItemsOfRow(n) ==
  {k \in 1..Len(DocItems) : DocItems[k].custom_id = "req-" \o ToString(n)}

HasItem(n) == ItemsOfRow(n) # {}

\* The item the merge uses for row n: the last one with its id.
ItemOfRow(n) ==
  DocItems[CHOOSE k \in ItemsOfRow(n) : \A j \in ItemsOfRow(n) : j <= k]

\* Row n's item carries neither a response nor an error.
BareItem(n) ==
  HasItem(n) /\ ~ItemOfRow(n).error.present /\ ~ItemOfRow(n).response.present

RowsWithError ==
  Cardinality({n \in 1..Len(mergeOut.data) : mergeOut.data[n].error # ""})

RemoteError(n) == HasItem(n) /\ ItemOfRow(n).error.present

\* C10 as claimed: a row whose item carries a remote error with message m is
\* merged with enriched = false and an error message exactly equal to m, and is
\* counted once in stats.errors.
C10_ErrorVerbatim ==
  mergeOut.done /\ mergeOut.success =>
    \A n \in 1..Len(mergeOut.data) :
      RemoteError(n) =>
        /\ ~mergeOut.data[n].enriched
        /\ mergeOut.data[n].error = ItemOfRow(n).error.message
        /\ mergeOut.stats.errors = RowsWithError

\* C10 amended: the error message is "API Error: " followed by m.
C10_ErrorPrefixed ==
  mergeOut.done /\ mergeOut.success =>
    \A n \in 1..Len(mergeOut.data) :
      RemoteError(n) =>
        /\ ~mergeOut.data[n].enriched
        /\ mergeOut.data[n].error = "API Error: " \o ItemOfRow(n).error.message
        /\ mergeOut.stats.errors = RowsWithError

C10_Witness ==
  /\ mergeOut.done /\ mergeOut.success
  /\ Len(mergeOut.data) = 1
  /\ RemoteError(1)
  /\ mergeOut.data[1].error = "API Error: boom"
  /\ mergeOut.stats.errors = 1

(***************************************************************************)
(* Further claims about the result merge.                                  *)
(***************************************************************************)
\* The raw document with its lines rearranged by the permutation f.
Shuffled(f) == [n \in 1..Len(rawDoc) |-> rawDoc[f[n]]]

\* No two result items of the raw document carry the same correlation id.
DistinctIds ==
  \A j, k \in 1..Len(DocItems) :
    DocItems[j].custom_id = DocItems[k].custom_id => j = k

\* C13 as claimed: permuting the lines of the raw document, each line kept as
\* it is, does not change the merge output, rows and stats alike.
C13_PermutationInvariant ==
  mergeOut.done =>
    \A f \in Permutations(1..Len(rawDoc)) :
      processBatchResults(mergeRows, Shuffled(f)) = mergeOut

\* C13 amended: when no two result items carry the same correlation id,
\* permuting the lines of the raw document does not change the merge output.
C13_PermutationInvariantDistinct ==
  mergeOut.done /\ DistinctIds =>
    \A f \in Permutations(1..Len(rawDoc)) :
      processBatchResults(mergeRows, Shuffled(f)) = mergeOut

\* Two rows merged with their two items, which stand in reverse row order.
C13_Witness ==
  /\ mergeOut.done /\ mergeOut.success
  /\ Len(mergeRows) = 2 /\ Len(DocItems) = 2
  /\ DocItems[1].custom_id = "req-2" /\ DocItems[2].custom_id = "req-1"
  /\ mergeOut.data[1].enriched /\ ~mergeOut.data[2].enriched

\* Row n of the output is the row of a connection without a result item.
AbsentRow(n) ==
  /\ ~mergeOut.data[n].enriched
  /\ mergeOut.data[n].location = Undefined
  /\ mergeOut.data[n].stats = Undefined
  /\ mergeOut.data[n].error = ""

\* Row n of the output is what its own item alone gives.
OwnResult(n) ==
  mergeOut.data[n] =
    mergeRow(mergeRows[n], n - 1, ("req-" \o ToString(n)) :> ItemOfRow(n))

C16_FailureIsolated ==
  mergeOut.done /\ Decodes /\ Len(mergeRows) > 0 /\ Len(DocItems) > 0 =>
    /\ mergeOut.success
    /\ Len(mergeOut.data) = Len(mergeRows)
    /\ \A n \in 1..Len(mergeRows) :
         IF HasItem(n) THEN OwnResult(n) ELSE AbsentRow(n)

\* C17: when a non-blank line of the raw document is not valid JSON, the merge
\* fails as a whole: it reports an error and returns no rows, and the step
\* leaves the ledger and every call chain as they are.
C17_MalformedLineFailsMerge ==
  [][(~mergeOut.done /\ mergeOut'.done /\ ~Decodes) =>
       /\ ~mergeOut'.success
       /\ mergeOut'.error # ""
       /\ mergeOut'.data = <<>>
       /\ mergeOut'.stats = NoStats
       /\ UNCHANGED ledgerVars]_vars

\* Two rows, one well-formed item and one line that is not JSON: the merge
\* has failed and holds no row.
C17_Witness ==
  /\ mergeOut.done /\ ~mergeOut.success /\ mergeOut.data = <<>>
  /\ Len(mergeRows) = 2 /\ Len(rawDoc) = 2
  /\ rawDoc[1].kind = "item" /\ rawDoc[1].item.response.present
  /\ rawDoc[2].kind = "malformed"

C29_StatsCountRows ==
  mergeOut.done /\ mergeOut.success =>
    LET data == mergeOut.data
        rows == 1..Len(data)
    IN /\ Len(data) = Len(mergeRows)
       /\ mergeOut.stats.total = Len(mergeRows)
       /\ mergeOut.stats.enriched = Cardinality({n \in rows : data[n].enriched})
       /\ mergeOut.stats.withLocation =
            Cardinality({n \in rows : data[n].location # Undefined})
       /\ mergeOut.stats.withStats =
            Cardinality({n \in rows : data[n].stats # Undefined})
       /\ mergeOut.stats.errors = Cardinality({n \in rows : data[n].error # ""})

\* A merge of two rows: the first carries a location and no stats, the second
\* has no result item.
C29_Witness ==
  /\ mergeOut.done /\ mergeOut.success
  /\ Len(mergeRows) = 2
  /\ mergeOut.stats =
       [total |-> 2, enriched |-> 1, withLocation |-> 1, withStats |-> 0, errors |-> 0]
  /\ mergeOut.data[1].location # Undefined
  /\ mergeOut.data[2].location = Undefined

(***************************************************************************)
(* Claims about the ledger, the lifecycle client and the scheduler.        *)
(***************************************************************************)
\* The records an array holds for a job id.
RecordsOf(batches, id) == SelectSeq(batches, LAMBDA b : b.batchId = id)

\* This step is the put of the addBatch or updateBatchStatus call of chain p.
PutStep(p) ==
  /\ procs[p].pc \in {"addWrite", "updateWrite"}
  /\ procs'[p] # procs[p]

\* C2: ledger writes that target different job ids are independent: the put
\* of an addBatch or updateBatchStatus call on one job id leaves the stored
\* record of every other job id as it is - not lost, not reverted - whatever
\* other writes ran between the call's read and its put.  (Job ids the user
\* has asked to delete are left aside.)
C2_IndependentWrites ==
  [][\A p \in Procs :
       PutStep(p) =>
         \A id \in (BatchIdsOf(store) \ deleted) \ {procs[p].batchId} :
           RecordsOf(store', id) = RecordsOf(store, id)]_vars

\* C3: a job record in the ledger stays there until the user deletes that job
\* id: no step removes the record of a job id the user has not asked to
\* delete.
C3_RecordStaysUntilDeleted ==
  [][\A id \in BatchIdsOf(store) :
       id \in BatchIdsOf(store') \/ id \in deleted']_vars

\* C4: at any time at most one execution of pollPendingBatches is in
\* progress, the start-up tick and the interval's ticks counted alike.
C4_AtMostOneTick ==
  Cardinality({p \in TickProcs : ~Idle(p)}) <= 1

\* C5: every status stored in a ledger record is one of the eight defined
\* statuses; a remote status outside them is never written.
C5_StoredStatusDefined ==
  \A n \in 1..Len(store) : store[n].status \in BatchStatus

\* This step is a step of tick p while it polls a job.
PollStep(p) ==
  /\ procs[p].kind = "tick"
  /\ procs[p].pc \in {"check", "updateRead", "updateWrite"}
  /\ procs'[p] # procs[p]

\* C11: within a tick a failed poll of one job does not stop the tick: each
\* step of a tick either goes on with the job it polls, or passes to the next
\* job of the list taken at the start of the tick, or ends the tick after the
\* last one; the interval stays set, so later ticks start.
C11_PollIsolated ==
  [][\A p \in TickProcs :
       PollStep(p) =>
         /\ interval' = interval
         /\ \/ /\ procs'[p].pending = procs[p].pending
               /\ procs'[p].batchId = procs[p].batchId
               /\ procs'[p].pc \in {"updateRead", "updateWrite"}
               /\ procs'[p].failed = procs[p].failed
            \/ /\ Len(procs[p].pending) > 1
               /\ procs'[p].pending = Tail(procs[p].pending)
               /\ procs'[p].batchId = procs[p].pending[2]
               /\ procs'[p].pc = "check"
            \/ /\ Len(procs[p].pending) = 1
               /\ procs'[p] = IdleProc]_vars

\* A tick polls the second job of its list after the poll of the first failed.
C11_Witness ==
  \E p \in TickProcs :
    /\ procs[p].pc = "updateWrite"
    /\ procs[p].failed # {}
    /\ procs[p].batchId \notin procs[p].failed

\* C12: every status held by a ledger record is a status that a response of
\* the remote service (to submit, poll or refresh) carried for that same job.
C12_StatusFromRemote ==
  \A n \in 1..Len(store) : store[n].status \in reported[store[n].batchId]

\* A poll or refresh has written a status other than the one of the submit.
C12_Witness ==
  \E n \in 1..Len(store) :
    /\ store[n].status = "completed"
    /\ store[n].lastChecked > 0

\* The four statuses of a job that is still running remotely.
ActiveStatuses == {"validating", "in_progress", "finalizing", "cancelling"}

\* C15: getPendingBatches returns exactly the ledger records whose status is
\* validating, in_progress, finalizing or cancelling, in ledger order.
C15_ListActiveExact ==
  getPendingBatches(store) =
    SelectSeq(store, LAMBDA b : b.status \in ActiveStatuses)

\* C19: whatever addBatch, updateBatchStatus and deleteBatch calls have run,
\* getAllBatches returns the records ordered by createdAt, newest first.
C19_ListAllNewestFirst ==
  LET batches == getAllBatches(store)
  IN \A n, m \in 1..Len(batches) :
       n < m => batches[n].createdAt >= batches[m].createdAt

\* Two records, the newer one first, the older one updated by a poll.
C19_Witness ==
  /\ Len(store) = 2
  /\ store[1].createdAt > store[2].createdAt
  /\ store[2].lastChecked > 0

\* This step is a step of the createBatch call of chain p.
SubmitStep(p) ==
  /\ procs[p].kind = "submit"
  /\ procs'[p] # procs[p]

\* The call of chain p has ended with this error and without a ledger write.
SubmitFailed(p, error) ==
  /\ procs'[p].pc = "idle"
  /\ procs'[p].result = error
  /\ UNCHANGED <<store, remote, uploads>>

\* C20: createBatch uploads, then opens the job, then writes the ledger, each
\* only after the step before succeeded.  A failed upload ends the call with
\* an error: no job is opened, no record is written.  A failed open ends the
\* call with an error: no record is written.  Every ledger record belongs to
\* a job the remote has opened on an artifact it holds.
C20_SubmitOrder ==
  [][/\ \A p \in UserProcs :
          SubmitStep(p) =>
            CASE procs[p].pc = "upload" ->
                   \/ SubmitFailed(p, "File upload failed")
                   \/ /\ procs'[p].pc = "open"
                      /\ procs'[p].fileId \in uploads' \ uploads
                      /\ UNCHANGED <<store, remote>>
              [] procs[p].pc = "open" ->
                   \/ SubmitFailed(p, "Batch creation failed")
                   \/ /\ procs'[p].pc = "addRead"
                      /\ procs[p].fileId \in uploads
                      /\ ~remote[procs'[p].batchId].exists
                      /\ remote'[procs'[p].batchId].exists
                      /\ UNCHANGED <<store, uploads>>
              [] procs[p].pc = "addRead" ->
                   /\ procs'[p].pc = "addWrite"
                   /\ remote[procs[p].batchId].exists
                   /\ UNCHANGED <<store, remote, uploads>>
              [] procs[p].pc = "addWrite" ->
                   /\ procs'[p].pc = "idle"
                   /\ procs'[p].result = "ok"
                   /\ procs[p].batchId \in BatchIdsOf(store')
                   /\ UNCHANGED <<remote, uploads>>
     /\ \A n \in 1..Len(store') :
          /\ remote'[store'[n].batchId].exists
          /\ store'[n].fileId \in uploads']_vars

\* The upload succeeded and the open failed: the caller holds the error, the
\* artifact stays with the remote, no job is open and the ledger is empty.
C20_Witness ==
  \E p \in UserProcs :
    /\ procs[p].pc = "idle"
    /\ procs[p].result = "Batch creation failed"
    /\ uploads # {}
    /\ \A id \in RemoteJobIds : ~remote[id].exists
    /\ store = <<>>

\* This step is a createBatch call that chain p makes from rest.
SubmitCall(p) ==
  /\ Idle(p)
  /\ procs'[p] # procs[p]
  /\ procs'[p].kind \notin {"refresh", "delete"}

\* C21: when the credential, the stored archive or the contacts table in it
\* is absent, createBatch ends at once with the error of the first missing
\* prerequisite: no request goes to the remote (nothing is uploaded, no job is
\* opened) and the ledger is not written.
C21_MissingPrerequisite ==
  [][\A p \in UserProcs :
       SubmitCall(p) /\ (~apiKey \/ source \in {"noZip", "noCsv"}) =>
         /\ procs'[p].pc = "idle"
         /\ procs'[p].result =
              IF ~apiKey THEN "API key not found"
              ELSE IF source = "noZip" THEN "ZIP file not found"
              ELSE "Connections.csv not found"
         /\ UNCHANGED <<store, remote, uploads>>]_vars

\* createBatch has ended on an archive without a contacts table.
C21_Witness ==
  \E p \in UserProcs :
    /\ procs[p].pc = "idle"
    /\ procs[p].result = "Connections.csv not found"
    /\ apiKey /\ source = "noCsv"
    /\ store = <<>> /\ uploads = {}

\* The fields of a record that a status poll has no business with.
Identity(b) == <<b.batchId, b.createdAt, b.fileId, b.connectionsCount>>

\* This step is the put that ends the successful status poll of chain p.
PollPut(p) ==
  /\ procs[p].pc = "updateWrite"
  /\ procs'[p] # procs[p]

\* C22: a successful status poll of a job changes only that job's status,
\* counts, artifact ids and last-checked time: the job's batchId, createdAt,
\* input fileId and metadata stay as they are, and the ledger's records of
\* every other job id are the same after the poll's put as before it.
C22_PollFrame ==
  [][\A p \in Procs :
       PollPut(p) =>
         /\ \A id \in RemoteJobIds \ {procs[p].batchId} :
              RecordsOf(store', id) = RecordsOf(store, id)
         /\ \A n \in 1..Len(store), m \in 1..Len(store') :
              store[n].batchId = procs[p].batchId /\ store'[m].batchId = procs[p].batchId
                => Identity(store'[m]) = Identity(store[n])]_vars

\* This step is the return of a checkBatchStatus call of chain p that got no
\* successful response.
FailedCheck(p) ==
  /\ procs[p].pc = "check"
  /\ procs'[p] # procs[p]
  /\ procs'[p].pc # "updateRead"

\* C23: a status poll that meets a missing credential, a network failure or a
\* response that is not ok returns a failure to its caller, which goes on (to
\* its next job, or to rest), and writes nothing: the ledger is the same after
\* the call as before, so the job is listed as active as it was.
C23_FailedPollWritesNothing ==
  [][\A p \in Procs :
       FailedCheck(p) =>
         /\ store' = store
         /\ getPendingBatches(store') = getPendingBatches(store)
         /\ procs'[p].pc \in {"check", "idle"}
         /\ procs[p].kind = "tick" /\ procs'[p].pc = "check"
              => procs[p].batchId \in procs'[p].failed]_vars

\* A tick has passed to its second job after the poll of its first failed,
\* and the first job's record is active and has never been updated.
C23_Witness ==
  \E p \in TickProcs :
    /\ procs[p].pc = "check"
    /\ \E n \in 1..Len(store) :
         /\ store[n].batchId \in procs[p].failed
         /\ store[n].status \in ActiveStatuses
         /\ store[n].lastChecked = 0

\* This step starts an execution of pollPendingBatches in slot p.
TickStart(p) == Idle(p) /\ ~Idle(p)'

\* C24: once clearInterval has run, no execution of pollPendingBatches starts
\* (until the page mounts again and sets a new interval); clearInterval itself
\* touches neither the executions in flight nor the ledger, and an execution
\* in flight while the interval is cleared goes on to its end.
C24_StopsTicksOnly ==
  /\ [][\A p \in TickProcs : TickStart(p) => interval \/ (interval' /\ procs'[p].pc = "list")]_vars
  /\ [][interval /\ ~interval' => procs' = procs /\ store' = store]_vars
  /\ \A p \in TickProcs : (~interval /\ ~Idle(p)) ~> Idle(p)

\* An execution is about to put a polled record while the interval is
\* cleared.
C24_Witness ==
  /\ ~interval
  /\ \E p \in TickProcs : procs[p].kind = "tick" /\ procs[p].pc = "updateWrite"

\* This step is the mount of the page: it sets the interval.
MountStep == ~interval /\ interval'

\* C25: the step that sets the 60-second interval also launches one
\* execution of pollPendingBatches, no more and no less: the first tick does
\* not wait for the interval to fire.
C25_FirstTickAtOnce ==
  [][MountStep =>
       /\ Cardinality({p \in TickProcs : TickStart(p)}) = 1
       /\ \A p \in TickProcs : TickStart(p) => procs'[p] = [IdleProc EXCEPT !.kind = "tick", !.pc = "list"]]_vars

\* The page has just mounted: the interval is set, it has not fired, and the
\* first execution is about to list the active jobs.
C25_Witness ==
  /\ interval
  /\ started = 1
  /\ Cardinality({p \in TickProcs : procs[p].pc = "list"}) = 1

\* This step is the put that ends the import of job id.
ImportPut(id) ==
  \E p \in ImportProcs :
    /\ procs[p].kind = "import"
    /\ procs[p].pc = "addWrite"
    /\ procs[p].batchId = id
    /\ procs'[p] # procs[p]

\* C26: a job id that this client has neither submitted nor imported enters
\* the ledger only by the put of the import the user asked for: no step of a
\* tick, of a refresh, of the page's load or of the listing of the remote
\* service's jobs adds such an id to the ledger.
C26_OnlyImportAddsUnknown ==
  [][\A id \in BatchIdsOf(store') \ BatchIdsOf(store) :
       id \in known \/ ImportPut(id)]_vars

\* The job of another session has been imported while the scheduler runs,
\* and is polled like a job of this client.
C26_Witness ==
  /\ ForeignJobId \in BatchIdsOf(store)
  /\ interval
  /\ \E p \in TickProcs : procs[p].batchId = ForeignJobId /\ procs[p].pc = "updateWrite"

\* C28: parsing a contact table, exporting the parsed rows and parsing the
\* exported text yields the rows of the first parse: the same field names
\* with the same values in the same order, row by row.
C28_CsvRoundTrip ==
  csvStage = "reparsed" => csvAgain = csvRows

TerminalStatuses == {"completed", "failed", "expired", "cancelled"}

\* C30: once a job's record holds a terminal status, no step - of a tick or of
\* a refresh, begun before or after the terminal status was written - puts
\* the record back to an active status.
C30_TerminalStays ==
  [][\A n \in 1..Len(store), m \in 1..Len(store') :
       /\ store[n].batchId = store'[m].batchId
       /\ store[n].status \in TerminalStatuses
       => store'[m].status \notin ActiveStatuses]_vars

\* The user's deletion of job id has completed: it was asked for and no
\* deleteBatch call for the id is in flight.
DeletionDone(id) ==
  /\ id \in deleted
  /\ \A p \in UserProcs : ~(procs[p].kind = "delete" /\ procs[p].batchId = id)

\* C31: once the user's deletion of a job has completed and the ledger holds
\* no record of it, no step brings a record of that job back: a poll or a
\* refresh that was in flight during the deletion ends without writing one.
C31_DeletedStaysDeleted ==
  [][\A id \in RemoteJobIds :
       DeletionDone(id) /\ id \notin BatchIdsOf(store)
         => id \notin BatchIdsOf(store')]_vars

\* This step is the read half of the addBatch call of chain p: the array the
\* call will put has been computed.
InsertStep(p) ==
  /\ procs[p].pc = "addRead"
  /\ procs'[p].pc = "addWrite"

\* C32: at every moment the ledger holds at most one record per job id,
\* whatever inserts of a job id that is already there have run, one after the
\* other or interleaved; and the array an insert is about to put holds, for
\* the inserted job id, the inserted record whole and nothing else.
C32_OneRecordPerJob ==
  [][/\ \A id \in RemoteJobIds : Len(RecordsOf(store', id)) <= 1
     /\ \A p \in Procs :
          InsertStep(p) =>
            RecordsOf(procs'[p].batches, procs[p].batchId)
              = <<StoredBatch(procs[p].batchId, procs[p].created,
                              procs[p].body.status, procs[p].fileId,
                              procs[p].count)>>]_vars

\* An import of a job the ledger already holds has computed its array: as
\* long as the ledger's, with the job's record exchanged for the imported one.
C32_Witness ==
  \E q \in ImportProcs :
    /\ procs[q].pc = "addWrite"
    /\ procs[q].batchId \in BatchIdsOf(store)
    /\ Len(procs[q].batches) = Len(store)
    /\ RecordsOf(procs[q].batches, procs[q].batchId)
         # RecordsOf(store, procs[q].batchId)

\* Job id is being polled by the scheduler: an execution of
\* pollPendingBatches is inside its checkBatchStatus call for the job.
PolledByTick(id) ==
  \E p \in TickProcs :
    /\ procs[p].pc \in {"check", "updateRead", "updateWrite"}
    /\ procs[p].batchId = id

\* The ledger's record of job id holds the status.
Recorded(id, status) ==
  \E n \in 1..Len(store) :
    store[n].batchId = id /\ store[n].status = status

\* C33: with the interval firing on and on (the fairness of SpecPoll), if from
\* some point on the remote service always reports the same terminal status
\* for a job and from some point on no poll of the job fails, then at some
\* point the ledger holds that status for the job and the scheduler never
\* polls the job after that point.
C33_TerminalRecordedThenRest ==
  \A id \in RemoteJobIds : \A status \in TerminalStatuses :
    ( /\ <>[](remote[id].status = status)
      /\ <>[][\A p \in TickProcs :
                FailedCheck(p) => procs[p].batchId # id]_vars )
    => <>(Recorded(id, status) /\ []~PolledByTick(id))

\* The job ids whose record in the array holds a terminal status.
TerminalIn(batches) ==
  {batches[n].batchId : n \in {m \in 1..Len(batches) :
                                 batches[m].status \in TerminalStatuses}}

\* Execution p of pollPendingBatches is inside a checkBatchStatus call.
InCheck(pr) == pr.pc \in {"check", "updateRead", "updateWrite"}

\* C34: an execution of pollPendingBatches polls only jobs of the list it took
\* when it read the ledger: that list holds exactly the stored jobs whose
\* status was not terminal at the read, in stored order; the job polled is
\* always the head of what is left of the list, and the list only loses its
\* head from one poll to the next.  So a job stored as terminal at the read
\* is not polled by that execution.
C34_PollsOnlyListed ==
  [][\A p \in TickProcs :
       /\ procs[p].pc = "list" /\ procs'[p] # procs[p]
            => /\ \A n \in 1..Len(procs'[p].pending) :
                    /\ procs'[p].pending[n] \in BatchIdsOf(store)
                    /\ procs'[p].pending[n] \notin TerminalIn(store)
               /\ BatchIdsOf(store) \ TerminalIn(store)
                    = {procs'[p].pending[n] : n \in 1..Len(procs'[p].pending)}
               /\ InCheck(procs'[p]) \/ Idle(p)'
       /\ InCheck(procs[p]) /\ InCheck(procs'[p])
            => \/ procs'[p].pending = procs[p].pending
               \/ procs'[p].pending = Tail(procs[p].pending)
       /\ InCheck(procs'[p]) /\ procs'[p].kind = "tick"
            => /\ procs'[p].pending # <<>>
               /\ procs'[p].batchId = Head(procs'[p].pending)]_vars

\* An execution that listed one job while the ledger held two is polling it;
\* the other job is stored as completed.
C34_Witness ==
  \E p \in TickProcs :
    /\ procs[p].pc = "check"
    /\ procs[p].pending = <<"batch_2">>
    /\ Recorded("batch_1", "completed")
    /\ "completed" \notin reported["batch_2"]

\* Several result items of the raw document carry the same correlation id.
DuplicateIds == ~DistinctIds

\* C35: when the result document decodes and holds several items with the
\* same correlation id, the merge of a table with rows does not fail, and
\* every row that has items is what the last item with its id gives.
C35_DuplicatesLastWins ==
  mergeOut.done /\ Decodes /\ DuplicateIds /\ Len(mergeRows) > 0 =>
    /\ mergeOut.success
    /\ \A n \in 1..Len(mergeRows) : HasItem(n) => OwnResult(n)

\* Output row n carries the fields of input row n as they were.
OriginalFields(n) ==
  /\ mergeOut.data[n].firstName = mergeRows[n].firstName
  /\ mergeOut.data[n].lastName = mergeRows[n].lastName
  /\ mergeOut.data[n].url = mergeRows[n].url
  /\ mergeOut.data[n].emailAddress = mergeRows[n].emailAddress
  /\ mergeOut.data[n].company = mergeRows[n].company
  /\ mergeOut.data[n].position = mergeRows[n].position
  /\ mergeOut.data[n].connectedOn = mergeRows[n].connectedOn

Compiled(limit, n) == IF limit > 0 THEN Min(limit, n) ELSE n

\* C37: a createBatch call with a positive limit L on a table of N rows
\* compiles the first min(L, N) rows, in table order, under the correlation
\* ids req-1 .. req-min(L, N), and the record it adds to the ledger carries
\* min(L, N) as connectionsCount; a call without limit does the same with all
\* N rows.
C37_LimitTakesFirstRows ==
  [][\A limit \in CreateLimits :
       CreateBatchFromTable(limit) /\ jsonl' # jsonl =>
         LET count == Compiled(limit, Len(connections))
         IN /\ Len(jsonl') = count
            /\ \A n \in 1..count :
                 /\ jsonl'[n].custom_id = "req-" \o ToString(n)
                 /\ jsonl'[n].user = generatePrompt(connections[n])
            /\ store' # store =>
                 /\ Len(store') = 1
                 /\ store'[1].connectionsCount = count]_vars

\* A call with limit 2 on a table of three different rows has compiled two
\* requests and recorded the job.
C37_Witness ==
  /\ compiler = "app"
  /\ Len(connections) = 3
  /\ connections[1] # connections[2] /\ connections[2] # connections[3]
  /\ connections[1] # connections[3]
  /\ Len(jsonl) = 2
  /\ Len(store) = 1 /\ store[1].connectionsCount = 2

\* C38: in a merge that succeeds no row is both enriched and carrying an error
\* message, and every row that carries a location or a stats payload is
\* enriched; so the statistics obey withLocation <= enriched,
\* withStats <= enriched, enriched <= withLocation + withStats and
\* enriched + errors <= total.
C38_FlagsAndCounts ==
  mergeOut.done /\ mergeOut.success =>
    /\ \A n \in 1..Len(mergeOut.data) :
         /\ ~(mergeOut.data[n].enriched /\ mergeOut.data[n].error # "")
         /\ Truthy(mergeOut.data[n].location) \/ Truthy(mergeOut.data[n].stats)
              => mergeOut.data[n].enriched
    /\ mergeOut.stats.withLocation <= mergeOut.stats.enriched
    /\ mergeOut.stats.withStats <= mergeOut.stats.enriched
    /\ mergeOut.stats.enriched
         <= mergeOut.stats.withLocation + mergeOut.stats.withStats
    /\ mergeOut.stats.enriched + mergeOut.stats.errors <= mergeOut.stats.total

\* A merge of two rows: the first carries stats and no location, the second
\* an error.
C38_Witness ==
  /\ mergeOut.done /\ mergeOut.success
  /\ Truthy(mergeOut.data[1].stats) /\ ~Truthy(mergeOut.data[1].location)
  /\ mergeOut.stats =
       [total |-> 2, enriched |-> 1, withLocation |-> 0, withStats |-> 1, errors |-> 1]

\* The service worker has finished: no handler is in flight and every
\* cache.put it issued has been carried out.
SwQuiet ==
  /\ \A h \in SwHandlers : swProcs[h].pc = "idle"
  /\ swPuts = <<>>

\* C39: once the service worker has finished handling the requests it was
\* given, one after the other or together, the Mapbox cache holds at most
\* MaxMapboxItems entries and the image cache at most MaxImageItems; and the
\* entries limitCacheSize sets out to evict are the oldest of the cache it
\* listed, as many as exceed the limit.
C39_CachesBounded ==
  /\ [](SwQuiet => \A c \in CacheNames : Len(swCache[c]) <= maxItems(c))
  /\ [][\A h \in SwHandlers :
          swProcs[h].pc = "limitKeys" /\ swProcs'[h].pc = "limitDelete" =>
            LET entries == swCache[swProcs[h].cache]
                over == Len(entries) - maxItems(swProcs[h].cache)
            IN /\ over > 0
               /\ swProcs'[h].keys = [n \in 1..over |-> entries[n].url]]_vars

\* This step ends handler h: its response goes to the page.
SwReturns(h) == swProcs[h].pc # "idle" /\ swProcs'[h].pc = "idle"

\* Handler h has deleted the expired entry it matched.
ExpiryStep(h) == swProcs[h].pc = "expire" /\ swProcs'[h].pc # "expire"

\* C40 as claimed: handleMapboxRequest returns a cached response to the page
\* only while the entry is younger than MAX_AGE_DAYS days; a request that
\* matched an entry of MAX_AGE_DAYS days or more removes the entry from the
\* cache and is answered from the network.
C40_FreshOnly ==
  [][\A h \in SwHandlers :
       swProcs[h].cache = "mapbox" =>
         /\ SwReturns(h) /\ swProcs'[h].response.from = "cache"
              => swClock - swProcs'[h].response.date < MAX_AGE_DAYS
         /\ SwReturns(h) /\ swProcs[h].cached # NoEntry
              => swProcs'[h].response.from = "network"
         /\ ExpiryStep(h)
              => /\ swClock - swProcs[h].cached.date >= MAX_AGE_DAYS
                 /\ cacheMatch(swCache'["mapbox"], swProcs[h].url) = NoEntry
                 /\ swProcs'[h].pc = "fetch"]_vars

\* C40 amended: handleMapboxRequest returns a cached response to the page
\* while the entry is younger than MAX_AGE_DAYS days, and otherwise only when
\* the fetch throws; a request that matched an entry of MAX_AGE_DAYS days or
\* more removes the entry from the cache and asks the network: it is answered
\* with the network's response, or - the fetch throwing - with the expired
\* response it matched.
C40_FreshOrOffline ==
  [][\A h \in SwHandlers :
       swProcs[h].cache = "mapbox" =>
         /\ SwReturns(h) /\ swProcs'[h].response.from = "cache"
              => \/ /\ swProcs[h].pc = "match"
                    /\ swClock - swProcs'[h].response.date < MAX_AGE_DAYS
                 \/ /\ swProcs[h].pc = "fetch"
                    /\ swProcs[h].cached # NoEntry
                    /\ swProcs'[h].response.date = swProcs[h].cached.date
         /\ SwReturns(h) /\ swProcs[h].cached # NoEntry
              => \/ swProcs'[h].response.from = "network"
                 \/ swProcs[h].pc = "fetch" /\ swProcs'[h].response.from = "cache"
         /\ swProcs[h].pc = "match" /\ swProcs'[h].pc = "fetch"
              => cacheMatch(swCache["mapbox"], swProcs[h].url) = NoEntry
         /\ ExpiryStep(h)
              => /\ swClock - swProcs[h].cached.date >= MAX_AGE_DAYS
                 /\ cacheMatch(swCache'["mapbox"], swProcs[h].url) = NoEntry
                 /\ swProcs'[h].pc = "fetch"]_vars

\* A request matched an entry of exactly MAX_AGE_DAYS days, has removed it
\* from the cache and is asking the network.
C40_Witness ==
  \E h \in SwHandlers :
    /\ swProcs[h].pc = "fetch"
    /\ swProcs[h].cached # NoEntry
    /\ swClock - swProcs[h].cached.date = MAX_AGE_DAYS
    /\ cacheMatch(swCache["mapbox"], swProcs[h].url) = NoEntry

=============================================================================
